---------------------------- MODULE Spec2Model ----------------------------
(***************************************************************************)
(* A model of plistutils: the NSKeyedArchive decoder (nskeyedarchiver.py), *)
(* the bookmark decoder (bookmark.py) and the alias decoder (alias.py).    *)
(*                                                                         *)
(* Each decoder is a state machine of its own specification (SpecArchive,  *)
(* SpecBookmark, SpecAlias): Init draws an input from a bounded set, the   *)
(* actions are the decoder's steps, translated from the Python source.     *)
(* An exception that leaves the decoder is recorded in the decoder's *_exc *)
(* variable and its program counter becomes "raised".                      *)
(***************************************************************************)
EXTENDS Integers, Sequences, FiniteSets, TLC

VARIABLES
    \* NSKeyedArchiveParser.parse_archive
    plist_data,         \* the pre-parsed plist (a dict value)
    ar_pc,              \* "idle" | "call" | "loop" | "done" | "raised"
    top_i,              \* number of $top items already handled
    ret,                \* the mapping being built: sequence of [name, val]
    ar_exc,             \* the exception that reached the caller, or "none"
    ar_log,             \* sequence of log levels emitted
    \* BookmarkParser.parse_bookmark
    bm_buf,             \* the blob: a bytes value, or None
    bm_idx,             \* the caller's idx
    bm_pc,              \* "idle" | "call" | "get_toc" | "fields" | "done" | "raised"
    toc_offset,         \* get_toc: offset of the next TOC block, 0 at the end
    toc_count,          \* get_toc: number of TOC blocks visited
    table_of_contents,  \* get_toc: the TOC entries collected
    all_data,           \* parse_bookmark: one record per TOC
    toc_e,              \* parse_bookmark: number of TOC entries handled
    bm_exc,             \* the exception that reached the caller, or "none"
    bm_log,             \* sequence of log levels emitted
    \* AliasParser.parse
    al_buf,             \* the blob passed by the caller: a bytes value, or None
    al_idx,             \* the caller's idx
    al_pc,              \* "idle" | "call" | "walk" | "done" | "raised"
    al_cur,             \* buf of the running parse call (al_buf or an embedded alias)
    al_depth,           \* number of enclosing parse calls
    cur_offset,         \* parse_version: offset of the next named field
    loop_ct,            \* parse_version: number of named fields decoded
    al_record,          \* parse_version: the record being built
    al_out,             \* the records yielded so far
    al_exc,             \* the exception that reached the caller, or "none"
    al_log,             \* sequence of log levels emitted
    \* A caller of the three decoders
    calls               \* the calls that have returned or raised, in order

arVars == <<plist_data, ar_pc, top_i, ret, ar_exc, ar_log>>
bmVars == <<bm_buf, bm_idx, bm_pc, toc_offset, toc_count, table_of_contents,
            all_data, toc_e, bm_exc, bm_log>>

alVars == <<al_buf, al_idx, al_pc, al_cur, al_depth, cur_offset, loop_ct, al_record,
            al_out, al_exc, al_log>>

sessVars == <<calls>>

vars == <<arVars, bmVars, alVars, sessVars>>

-----------------------------------------------------------------------------
(* Bounds of the model.                                                    *)

\* Number of objects in the $objects pool of an input archive.
PoolSize == 3
\* Stand-in for the interpreter's recursion limit (sys.getrecursionlimit()):
\* a call chain deeper than this raises RecursionError.
RecursionLimit == 12

-----------------------------------------------------------------------------
(* Python values of the plist tree.  Every value is a record tagged by its *)
(* runtime type t:                                                         *)
(*   uid   [t, i]      biplist.Uid with .integer = i                       *)
(*   str   [t, s]      str                                                 *)
(*   int   [t, n]      int                                                 *)
(*   none  [t]         None                                                *)
(*   bytes [t, b]      bytes (sequence of octets)                          *)
(*   list  [t, v]      list (sequence of values)                           *)
(*   dict  [t, d]      dict (function from key strings to values)          *)
(*   text  [t, c]      str decoded from octets (sequence of character      *)
(*                     codes)                                              *)
(*   bool  [t, tf]     bool                                                *)
(*   float [t, be]     float, by the big-endian octets of its encoding     *)
(*   num   [t, raw]    int too wide for the checker's integers, by its     *)
(*                     little-endian octets                                *)
(*   datetime [t, mac] datetime: the Mac absolute time it was made from    *)
(*   uuid  [t, raw]    str(UUID(bytes=raw))                                *)
(*   urljoin [t, base, url]  the result of urljoin(base, url)              *)

Uid(i)   == [t |-> "uid", i |-> i]
Str(s)   == [t |-> "str", s |-> s]
IntV(n)  == [t |-> "int", n |-> n]
NoneV    == [t |-> "none"]
BytesV(b) == [t |-> "bytes", b |-> b]
TextV(c) == [t |-> "text", c |-> c]
BoolV(b) == [t |-> "bool", tf |-> b]
FloatV(be) == [t |-> "float", be |-> be]
NumV(raw) == [t |-> "num", raw |-> raw]
ListV(v) == [t |-> "list", v |-> v]
DictV(d) == [t |-> "dict", d |-> d]

\* Python truthiness of a value (bool(x)).
Truthy(x) ==
    CASE x.t = "none"  -> FALSE
      [] x.t = "str"   -> x.s # ""
      [] x.t = "text"  -> x.c # <<>>
      [] x.t = "int"   -> x.n # 0
      [] x.t = "bool"  -> x.tf
      [] x.t = "float" -> \E i \in 1..Len(x.be) : x.be[i] # (IF i = 1 /\ x.be[1] = 128 THEN 128 ELSE 0)
      [] x.t = "bytes" -> x.b # <<>>
      [] x.t = "list"  -> x.v # <<>>
      [] x.t = "dict"  -> DOMAIN x.d # {}
      [] OTHER         -> TRUE

(* id(obj): the identity of an object of the plist tree is its place in    *)
(* the tree, a sequence of naturals: <<i>> for $objects[i], extended by    *)
(* the key code or the list index of a nested object.  Literal defaults    *)
(* created by the decoder ('' and None of d.get) live at LiteralId.        *)
KeyNames == <<"$class", "$classname", "NS.keys", "NS.objects", "NS.string",
              "NS.base", "NS.relative", "NS.uuidbytes", "NS.data", "NS.time",
              "NSString", "NS.special", "NS.rangeval.length",
              "NS.rangeval.location", "URL", "bookmark", "name", "order",
              "uniqueIdentifier", "k", "$archiver", "$version", "$objects",
              "$top", "root", "other">>
KeyCode(k) == CHOOSE i \in 1..Len(KeyNames) : KeyNames[i] = k
LiteralId == <<0, 0>>
TopId(i) == <<i>>
ChildId(addr, k) == Append(addr, k)

\* The outcome of a call: the exception it raised ("none": it returned),
\* the returned value, the parents set as the call left it, and the levels
\* of the messages it logged.
Ok(val, parents, log) ==
    [exc |-> "none", val |-> val, parents |-> parents, log |-> log]
Raise(exc, parents, log) ==
    [exc |-> exc, val |-> NoneV, parents |-> parents, log |-> log]

\* NSKeyedArchiveParser.convert_string
convert_string(obj) == IF obj.s = "$null" THEN NoneV ELSE obj

\* d.get(key, default), with the identity of the object it returns.
DictGet(d, addr, key, default) ==
    IF key \in DOMAIN d.d
    THEN [val |-> d.d[key], id |-> ChildId(addr, KeyCode(key))]
    ELSE [val |-> default, id |-> LiteralId]

\* The result mapping of _process_ns_dictionary: items in insertion order,
\* an assignment to a key already present replaces its value in place.
RECURSIVE MapSet(_, _, _)
MapSet(items, k, v) ==
    IF items = <<>> THEN <<[k |-> k, v |-> v]>>
    ELSE IF Head(items).k = k THEN <<[k |-> k, v |-> v]>> \o Tail(items)
    ELSE <<Head(items)>> \o MapSet(Tail(items), k, v)
MapV(items) == [t |-> "map", items |-> items]

\* Whether a value can be a dict key (hash(x) does not raise TypeError).
Hashable(x) == x.t \notin {"list", "dict", "map"}

\* parse_mac_absolute_time (utils.py): a falsy value gives None, a number a
\* timestamp, anything else raises inside and gives None.  (A number that
\* parse_timestamp cannot turn into a datetime, out of range or not finite,
\* also gives None; the numbers of the model's inputs are in range.)
parse_mac_absolute_time(x) ==
    IF ~Truthy(x) THEN NoneV
    ELSE IF x.t \in {"int", "bool", "float", "num"} THEN [t |-> "datetime", mac |-> x]
    ELSE NoneV

\* NSKeyedArchiveParser.is_known_nskeyedarchive
KNOWN_VERSIONS == {100000}
is_known_nskeyedarchive(plist) ==
    /\ plist.t = "dict"
    /\ DOMAIN plist.d # {}
    /\ "$archiver" \in DOMAIN plist.d
    /\ plist.d["$archiver"] \in {Str("NRKeyedArchiver"), Str("NSKeyedArchiver")}
    /\ "$version" \in DOMAIN plist.d
    /\ plist.d["$version"].t = "int"
    /\ plist.d["$version"].n \in KNOWN_VERSIONS

\* The exceptions convert_dict swallows.
ConvertDictCaught == {"AttributeError", "KeyError", "ValueError"}


\* The keys of a dict in iteration order (the model's dicts are built in the
\* order of KeyNames).
RECURSIVE KeysFrom(_, _)
KeysFrom(d, i) ==
    IF i > Len(KeyNames) THEN <<>>
    ELSE (IF KeyNames[i] \in DOMAIN d.d THEN <<KeyNames[i]>> ELSE <<>>)
         \o KeysFrom(d, i + 1)
DictKeys(d) == KeysFrom(d, 1)

-----------------------------------------------------------------------------
(* NSKeyedArchiveParser (nskeyedarchiver.py)                               *)

RECURSIVE process_obj(_, _, _, _, _)
RECURSIVE parse_archive(_, _)
RECURSIVE process_each(_, _, _, _, _, _)
RECURSIVE process_gets(_, _, _, _, _, _, _, _)
RECURSIVE ns_dictionary_loop(_, _, _, _, _, _, _, _)

\* The outcome r with the messages of log logged before its own.
After(log, r) == [r EXCEPT !.log = log \o r.log]

\* The outcome of a list of calls: r is the first call's, rest the others'.
Cons(r, rest) ==
    IF rest.exc # "none" THEN After(r.log, rest)
    ELSE Ok(ListV(<<r.val>> \o rest.val.v), rest.parents, r.log \o rest.log)

process_each_rest(r, seq, addr, j, ol, depth) ==
    IF r.exc # "none" THEN r
    ELSE Cons(r, process_each(seq, addr, j + 1, ol, r.parents, depth))

\* [self.process_obj(x, objects_list, parents) for x in seq], from element j.
process_each(seq, addr, j, ol, parents, depth) ==
    IF j > Len(seq) THEN Ok(ListV(<<>>), parents, <<>>)
    ELSE process_each_rest(
             process_obj(seq[j], ChildId(addr, j), ol, parents, depth + 1),
             seq, addr, j, ol, depth)

process_gets_rest(r, d, addr, keys, default, j, ol, depth) ==
    IF r.exc # "none" THEN r
    ELSE Cons(r, process_gets(d, addr, keys, default, j + 1, ol, r.parents, depth))

process_get(g, ol, parents, depth) ==
    process_obj(g.val, g.id, ol, parents, depth + 1)

\* self.process_obj(d.get(key, default), ...) for each key of keys, in order.
process_gets(d, addr, keys, default, j, ol, parents, depth) ==
    IF j > Len(keys) THEN Ok(ListV(<<>>), parents, <<>>)
    ELSE process_gets_rest(
             process_get(DictGet(d, addr, keys[j], default), ol, parents, depth),
             d, addr, keys, default, j, ol, depth)

\* assembled_dict[key] = value, then the next iteration.
ns_dictionary_store(k, v, d, addr, idx, assembled, ol, depth, log) ==
    IF k.exc # "none" THEN After(log, k)
    ELSE IF ~Hashable(k.val) THEN Raise("TypeError", k.parents, log \o k.log)
    ELSE ns_dictionary_loop(d, addr, idx + 1, MapSet(assembled, k.val, v.val),
                            ol, k.parents, depth, log \o k.log)

\* The key is processed after the value (Python evaluates the right-hand
\* side of the assignment first).
ns_dictionary_key(v, d, addr, idx, assembled, ol, depth, log) ==
    IF v.exc # "none" THEN After(log, v)
    ELSE ns_dictionary_store(
             process_obj(d.d["NS.keys"].v[idx],
                         ChildId(ChildId(addr, KeyCode("NS.keys")), idx),
                         ol, v.parents, depth + 1),
             v, d, addr, idx, assembled, ol, depth, log \o v.log)

\* The loop of _process_ns_dictionary from index idx (1-based here).
ns_dictionary_loop(d, addr, idx, assembled, ol, parents, depth, log) ==
    IF idx > Len(d.d["NS.keys"].v) THEN Ok(MapV(assembled), parents, log)
    ELSE CASE d.d["NS.objects"].t = "dict" -> Raise("KeyError", parents, log)
           [] d.d["NS.objects"].t \in {"uid", "int", "none"} ->
                Raise("TypeError", parents, log)
           [] d.d["NS.objects"].t = "list" ->
                IF idx > Len(d.d["NS.objects"].v)
                THEN Raise("IndexError", parents, log)
                ELSE ns_dictionary_key(
                         process_obj(d.d["NS.objects"].v[idx],
                                     ChildId(ChildId(addr, KeyCode("NS.objects")), idx),
                                     ol, parents, depth + 1),
                         d, addr, idx, assembled, ol, depth, log)

_process_ns_dictionary(d, addr, ol, parents, depth) ==
    IF "NS.keys" \in DOMAIN d.d /\ "NS.objects" \in DOMAIN d.d
    THEN CASE d.d["NS.keys"].t = "list" ->
                ns_dictionary_loop(d, addr, 1, <<>>, ol, parents, depth, <<>>)
           [] d.d["NS.keys"].t \in {"uid", "int", "none"} ->
                Raise("TypeError", parents, <<>>)
    ELSE Ok(d, parents, <<>>)

\* [x for x in [base, relative] if x]
UrlParts(base, relative) ==
    (IF Truthy(base) THEN <<base>> ELSE <<>>)
    \o (IF Truthy(relative) THEN <<relative>> ELSE <<>>)

\* '/'.join(parts)
JoinUrl(parts, parents, log) ==
    IF \E i \in 1..Len(parts) : parts[i].t # "str"
    THEN Raise("TypeError", parents, log)
    ELSE IF Len(parts) = 0 THEN Ok(Str(""), parents, log)
    ELSE IF Len(parts) = 1 THEN Ok(parts[1], parents, log)
    ELSE Ok(Str(parts[1].s \o "/" \o parts[2].s), parents, log)

ns_url_join(r) ==
    IF r.exc # "none" THEN r
    ELSE JoinUrl(UrlParts(r.val.v[1], r.val.v[2]), r.parents, r.log)

_process_ns_url(d, addr, ol, parents, depth) ==
    ns_url_join(process_gets(d, addr, <<"NS.base", "NS.relative">>, Str(""), 1,
                             ol, parents, depth))

ns_uuid_of(uuid_bytes, parents) ==
    CASE uuid_bytes.t = "bytes" ->
            IF Len(uuid_bytes.b) = 16
            THEN Ok([t |-> "uuidstr", b |-> uuid_bytes.b], parents, <<>>)
            ELSE Ok(uuid_bytes, parents, <<>>)
      [] uuid_bytes.t = "str" /\ Len(uuid_bytes.s) # 16 ->
            Ok(uuid_bytes, parents, <<>>)
      [] uuid_bytes.t \in {"uid", "int", "none"} ->
            Raise("TypeError", parents, <<>>)

_process_ns_uuid(d, addr, ol, parents, depth) ==
    ns_uuid_of(DictGet(d, addr, "NS.uuidbytes", Str("")).val, parents)

ns_sequence_of(g, ol, parents, depth) ==
    CASE g.val.t = "list" -> process_each(g.val.v, g.id, 1, ol, parents, depth)
      [] g.val.t \in {"uid", "int", "none"} -> Raise("TypeError", parents, <<>>)

_process_ns_sequence(d, addr, ol, parents, depth) ==
    ns_sequence_of(DictGet(d, addr, "NS.objects", NoneV), ol, parents, depth)

ns_data_of(data, parents, depth) ==
    IF data.t = "dict" /\ is_known_nskeyedarchive(data)
    THEN [parse_archive(data, depth + 1) EXCEPT !.parents = parents]
    ELSE Ok(data, parents, <<>>)

_process_ns_data(d, addr, ol, parents, depth) ==
    ns_data_of(DictGet(d, addr, "NS.data", NoneV).val, parents, depth)

_process_ns_null(d, addr, ol, parents, depth) == Ok(NoneV, parents, <<>>)

_process_ns_string(d, addr, ol, parents, depth) ==
    Ok(DictGet(d, addr, "NS.string", NoneV).val, parents, <<>>)

_process_ns_attributed_string(d, addr, ol, parents, depth) ==
    process_get(DictGet(d, addr, "NSString", NoneV), ol, parents, depth)

ns_range_of(r) ==
    IF r.exc # "none" THEN r
    ELSE Ok(DictV(("length" :> r.val.v[1]) @@ ("location" :> r.val.v[2])),
            r.parents, r.log)

_process_ns_range(d, addr, ol, parents, depth) ==
    ns_range_of(process_gets(d, addr,
                    <<"NS.rangeval.length", "NS.rangeval.location">>,
                    NoneV, 1, ol, parents, depth))

ns_value_of(special_type, d, addr, ol, parents, depth) ==
    IF Truthy(special_type)
    THEN IF ~Hashable(special_type) THEN Raise("TypeError", parents, <<>>)
         ELSE IF special_type = IntV(4)
         THEN _process_ns_range(d, addr, ol, parents, depth)
         ELSE Ok(NoneV, parents, <<"error">>)
    ELSE Ok(NoneV, parents, <<"error">>)

_process_ns_value(d, addr, ol, parents, depth) ==
    ns_value_of(DictGet(d, addr, "NS.special", NoneV).val, d, addr, ol, parents, depth)

ns_list_item_of(r) ==
    IF r.exc # "none" THEN r
    ELSE Ok(DictV(("url" :> r.val.v[1]) @@ ("bookmark" :> r.val.v[2])
                  @@ ("name" :> r.val.v[3]) @@ ("order" :> r.val.v[4])
                  @@ ("uuid" :> r.val.v[5])),
            r.parents, r.log)

_process_ns_list_item(d, addr, ol, parents, depth) ==
    ns_list_item_of(process_gets(d, addr,
                        <<"URL", "bookmark", "name", "order", "uniqueIdentifier">>,
                        NoneV, 1, ol, parents, depth))

_process_ns_date(d, addr, ol, parents, depth) ==
    Ok(parse_mac_absolute_time(DictGet(d, addr, "NS.time", NoneV).val),
       parents, <<>>)

\* Logs a warning and returns nothing (None).
_process_default(d, addr, ol, parents, depth) ==
    Ok(NoneV, parents, <<"warning">>)

\* get_processors().get(class_name, _process_default)(self, class_name, d, ...)
Dispatch(class_name, d, addr, ol, parents, depth) ==
    IF ~Hashable(class_name) THEN Raise("TypeError", parents, <<>>)
    ELSE IF class_name.t # "str" THEN _process_default(d, addr, ol, parents, depth)
    ELSE CASE class_name.s \in {"NSArray", "NSMutableArray", "NSSet", "NSMutableSet"} ->
                _process_ns_sequence(d, addr, ol, parents, depth)
           [] class_name.s \in {"NSAttributedString", "NSMutableAttributedString"} ->
                _process_ns_attributed_string(d, addr, ol, parents, depth)
           [] class_name.s \in {"NSData", "NSMutableData"} ->
                _process_ns_data(d, addr, ol, parents, depth)
           [] class_name.s = "NSDate" -> _process_ns_date(d, addr, ol, parents, depth)
           [] class_name.s \in {"NSDictionary", "NSMutableDictionary"} ->
                _process_ns_dictionary(d, addr, ol, parents, depth)
           [] class_name.s \in {"NSString", "NSMutableString"} ->
                _process_ns_string(d, addr, ol, parents, depth)
           [] class_name.s = "NSNull" -> _process_ns_null(d, addr, ol, parents, depth)
           [] class_name.s = "NSURL" -> _process_ns_url(d, addr, ol, parents, depth)
           [] class_name.s = "NSUUID" -> _process_ns_uuid(d, addr, ol, parents, depth)
           [] class_name.s = "NSValue" -> _process_ns_value(d, addr, ol, parents, depth)
           [] class_name.s = "SFLListItem" ->
                _process_ns_list_item(d, addr, ol, parents, depth)
           [] OTHER -> _process_default(d, addr, ol, parents, depth)

\* The except clause of convert_dict: a swallowed exception returns d.
convert_dict_except(r, d) ==
    IF r.exc \in ConvertDictCaught THEN Ok(d, r.parents, r.log) ELSE r

\* c is the outcome of self.process_obj(d['$class'], ...).
convert_dict_class(c, d, addr, ol, depth) ==
    IF c.exc # "none" THEN convert_dict_except(c, d)
    ELSE IF c.val.t # "dict"
    THEN Ok(d, c.parents, c.log)    \* .get raises AttributeError: swallowed
    ELSE convert_dict_except(
             After(c.log, Dispatch(DictGet(c.val, <<>>, "$classname", NoneV).val,
                                   d, addr, ol, c.parents, depth)),
             d)

\* NSKeyedArchiveParser.convert_dict
convert_dict(d, addr, ol, parents, depth) ==
    IF "$class" \in DOMAIN d.d
    THEN convert_dict_class(
             process_obj(d.d["$class"], ChildId(addr, KeyCode("$class")),
                         ol, parents, depth + 1),
             d, addr, ol, depth)
    ELSE Ok(d, parents, <<>>)

\* A variant of process_obj_return that leaves obj_id in parents: the set
\* then holds every object visited so far (the mutant of C25).
process_obj_return_keep(r, obj_id) == r

\* parents.remove(obj_id); return ret
process_obj_return(r, obj_id) ==
    IF r.exc # "none" THEN r ELSE [r EXCEPT !.parents = r.parents \ {obj_id}]

\* The dispatch of process_obj on the runtime type of obj.
process_obj_body(obj, obj_id, ol, parents, depth) ==
    CASE obj.t = "dict" -> convert_dict(obj, obj_id, ol, parents, depth)
      [] obj.t = "list" -> process_each(obj.v, obj_id, 1, ol, parents, depth)
      [] obj.t = "uid" ->
            IF obj.i < Len(ol)
            THEN process_obj(ol[obj.i + 1], TopId(obj.i), ol, parents, depth + 1)
            ELSE Raise("IndexError", parents, <<>>)
      [] obj.t \in {"bool", "bytes", "int", "float", "none"} -> Ok(obj, parents, <<>>)
      [] obj.t = "str" -> Ok(convert_string(obj), parents, <<>>)
      [] OTHER -> Ok(obj, parents, <<"warning">>)

\* NSKeyedArchiveParser.process_obj.  depth counts the nested calls.
process_obj(obj, obj_id, ol, parents, depth) ==
    IF depth > RecursionLimit THEN Raise("RecursionError", parents, <<>>)
    ELSE IF obj_id \in parents
    THEN Raise("NSKeyedArchiveException", parents, <<>>)
    ELSE process_obj_return(
             process_obj_body(obj, obj_id, ol, parents \cup {obj_id}, depth),
             obj_id)

\* The try statement of parse_archive around ret[name] = self.process_obj(..):
\* r is the outcome of process_obj, acc the mapping so far.
parse_top_try(r, name, acc) ==
    CASE r.exc = "none" ->
            [exc |-> "none", log |-> r.log,
             ret |-> Append(acc, [name |-> name, val |-> r.val])]
      [] r.exc = "RecursionError" ->
            [exc |-> "none", ret |-> acc, log |-> r.log \o <<"error">>]
      [] OTHER -> [exc |-> r.exc, ret |-> acc, log |-> r.log]

\* A variant of default_parents in which the set outlives the call, as a
\* mutable default argument would: a call that raised inside process_obj
\* left the id of the object it was at (the mutant of C13).
default_parents_shared ==
    IF \E i \in 1..Len(calls) :
          calls[i].decoder = "archive" /\ calls[i].exc = "NSKeyedArchiveException"
    THEN {TopId(0)} ELSE {}

\* process_obj: if parents is None: parents = set()
default_parents == {}

\* One iteration of the loop of parse_archive over $top: the entry
\* (name, val) is added to the mapping acc (a sequence of [name, val]).
parse_top_entry(name, val, ol, acc, depth) ==
    IF val.t = "uid"
    THEN IF val.i >= Len(ol) THEN [exc |-> "IndexError", ret |-> acc, log |-> <<>>]
         ELSE parse_top_try(process_obj(ol[val.i + 1], TopId(val.i), ol, default_parents,
                                        depth + 1),
                            name, acc)
    ELSE [exc |-> "none", log |-> <<>>,
          ret |-> Append(acc, [name |-> name, val |-> val])]

\* objects_list = plist_data.get('$objects'), as the sequence of its objects
\* (empty when missing or empty: the loop is skipped).
ObjectsList(plist) ==
    IF "$objects" \in DOMAIN plist.d /\ plist.d["$objects"].t = "list"
    THEN plist.d["$objects"].v ELSE <<>>

\* plist_data.get('$top', {}).items(), as a sequence of [name, val].
TopItemsOf(top, ks) == [i \in 1..Len(ks) |-> [name |-> ks[i], val |-> top.d[ks[i]]]]
TopItems(plist) ==
    IF "$top" \in DOMAIN plist.d
    THEN TopItemsOf(plist.d["$top"], DictKeys(plist.d["$top"]))
    ELSE <<>>

RECURSIVE parse_archive_loop(_, _, _, _, _, _)

parse_archive_next(e, plist, items, i, log, depth) ==
    IF e.exc # "none" THEN Raise(e.exc, {}, log \o e.log)
    ELSE parse_archive_loop(plist, items, i + 1, e.ret, log \o e.log, depth)

parse_archive_loop(plist, items, i, acc, log, depth) ==
    IF i > Len(items) THEN Ok(MapV(acc), {}, log)
    ELSE parse_archive_next(
             parse_top_entry(items[i].name, items[i].val, ObjectsList(plist), acc, depth),
             plist, items, i, log, depth)

\* NSKeyedArchiveParser.parse_archive, as called on a nested archive.
parse_archive(plist, depth) ==
    IF depth > RecursionLimit THEN Raise("RecursionError", {}, <<>>)
    ELSE IF ObjectsList(plist) = <<>> THEN Ok(MapV(<<>>), {}, <<>>)
    ELSE IF "$top" \in DOMAIN plist.d /\ plist.d["$top"].t # "dict"
    THEN Raise("AttributeError", {}, <<>>)
    ELSE parse_archive_loop(plist, TopItems(plist), 1, <<>>, <<>>, depth)

-----------------------------------------------------------------------------
(* The input archives of the model.                                        *)

PoolIdx == 0..(PoolSize - 1)
ClassSlot == PoolSize - 1

\* The objects a slot of $objects may hold.  An instance names its class by
\* the UID of the last slot.
PoolShapes ==
    {Uid(j) : j \in PoolIdx}
    \cup {Str("$null"), Str("hello")}
    \cup {DictV("$classname" :> Str(c)) : c \in {"NSArray", "Foo"}}
    \cup {DictV(("$class" :> Uid(ClassSlot))
                @@ ("NS.objects" :> ListV(<<Uid(a), Uid(a)>>))) : a \in PoolIdx}
    \cup {DictV("k" :> Uid(1))}

Pools == [1..PoolSize -> PoolShapes]

\* $top: "root" names the first pool object; "other", when present, is a
\* non-UID value, another UID or a UID outside the pool.
Tops ==
    {DictV("root" :> Uid(0)), DictV("root" :> IntV(7))}
    \cup {DictV(("root" :> Uid(0)) @@ ("other" :> v)) :
            v \in {IntV(7), Uid(1), Uid(PoolSize)}}

Archive(pool, top) ==
    DictV(("$archiver" :> Str("NSKeyedArchiver")) @@ ("$version" :> IntV(100000))
          @@ ("$objects" :> ListV(pool)) @@ ("$top" :> top))

\* Archives of the documentation's scenarios and of the per-class processors.
SampleArchives ==
    LET cls(c) == DictV("$classname" :> Str(c))
        top == DictV("root" :> Uid(0))
    IN  { \* $top.root -> {$class, NS.string: "hello"}, class NSString
          Archive(<<DictV(("$class" :> Uid(1)) @@ ("NS.string" :> Str("hello"))),
                    cls("NSString")>>, top),
          \* NSDictionary {"hello": None}
          Archive(<<DictV(("$class" :> Uid(1))
                          @@ ("NS.keys" :> ListV(<<Uid(2)>>))
                          @@ ("NS.objects" :> ListV(<<Uid(3)>>))),
                    cls("NSDictionary"), Str("hello"), Str("$null")>>, top),
          \* NSURL base/relative
          Archive(<<DictV(("$class" :> Uid(1)) @@ ("NS.base" :> Uid(2))
                          @@ ("NS.relative" :> Uid(3))),
                    cls("NSURL"), Str("file:///a"), Str("b")>>, top),
          \* NSData holding a nested archive
          Archive(<<DictV(("$class" :> Uid(1))
                          @@ ("NS.data" :> Archive(<<Str("hello")>>, top))),
                    cls("NSData")>>, top),
          \* no $objects
          DictV("$top" :> top),
          \* empty $objects
          Archive(<<>>, top),
          \* empty $objects and a $top entry that is not a UID
          Archive(<<>>, DictV("root" :> IntV(7))) }

\* The input archives: every pool under every $top, and the samples.
IsArchive(plist) ==
    \/ \E pool \in Pools, top \in Tops : plist = Archive(pool, top)
    \/ plist \in SampleArchives

-----------------------------------------------------------------------------
(* parse_archive as a state machine: one step per entry of $top.           *)

\* The state of a decoder that is not called.
ArIdle ==
    /\ plist_data = NoneV
    /\ ar_pc = "idle"
    /\ top_i = 0
    /\ ret = <<>>
    /\ ar_exc = "none"
    /\ ar_log = <<>>

BmIdle ==
    /\ bm_buf = NoneV
    /\ bm_idx = 0
    /\ bm_pc = "idle"
    /\ toc_offset = 0
    /\ toc_count = 0
    /\ table_of_contents = <<>>
    /\ all_data = <<>>
    /\ toc_e = 0
    /\ bm_exc = "none"
    /\ bm_log = <<>>

AlIdle ==
    /\ al_buf = NoneV
    /\ al_idx = 0
    /\ al_pc = "idle"
    /\ al_cur = NoneV
    /\ al_depth = 0
    /\ cur_offset = 0
    /\ loop_ct = 0
    /\ al_record = <<>>
    /\ al_out = <<>>
    /\ al_exc = "none"
    /\ al_log = <<>>

InitArchive ==
    /\ IsArchive(plist_data)
    /\ ar_pc = "call"
    /\ top_i = 0
    /\ ret = <<>>
    /\ ar_exc = "none"
    /\ ar_log = <<>>
    /\ BmIdle
    /\ AlIdle
    /\ calls = <<>>

\* ret = {}; objects_list = plist_data.get('$objects'); if objects_list: ...
ParseArchiveEnter ==
    /\ ar_pc = "call"
    /\ ar_pc' = IF ObjectsList(plist_data) = <<>> THEN "done" ELSE "loop"
    /\ UNCHANGED <<plist_data, top_i, ret, ar_exc, ar_log, bmVars, alVars, sessVars>>

\* The item of $top the loop is at.
CurItem == TopItems(plist_data)[top_i + 1]

\* The effect of one iteration with outcome e.
ParseArchiveStore(e) ==
    /\ ret' = e.ret
    /\ ar_log' = ar_log \o e.log
    /\ ar_exc' = e.exc
    /\ ar_pc' = IF e.exc = "none" THEN "loop" ELSE "raised"
    /\ top_i' = top_i + 1
    /\ UNCHANGED <<plist_data, bmVars, alVars, sessVars>>

\* One iteration of the for loop whose value is a Uid.
ParseArchiveUid ==
    /\ ar_pc = "loop"
    /\ top_i < Len(TopItems(plist_data))
    /\ CurItem.val.t = "uid"
    /\ ParseArchiveStore(parse_top_entry(CurItem.name, CurItem.val,
                                         ObjectsList(plist_data), ret, 0))

\* One iteration of the for loop whose value is not a Uid: ret[name] = val.
ParseArchivePassThrough ==
    /\ ar_pc = "loop"
    /\ top_i < Len(TopItems(plist_data))
    /\ CurItem.val.t # "uid"
    /\ ParseArchiveStore(parse_top_entry(CurItem.name, CurItem.val,
                                         ObjectsList(plist_data), ret, 0))

\* return ret
ParseArchiveReturn ==
    /\ ar_pc = "loop"
    /\ top_i = Len(TopItems(plist_data))
    /\ ar_pc' = "done"
    /\ UNCHANGED <<plist_data, top_i, ret, ar_exc, ar_log, bmVars, alVars, sessVars>>

NextArchive ==
    \/ ParseArchiveEnter
    \/ ParseArchiveUid
    \/ ParseArchivePassThrough
    \/ ParseArchiveReturn

SpecArchive == InitArchive /\ [][NextArchive]_vars


-----------------------------------------------------------------------------
(* Claims about parse_archive.                                             *)

\* The $top entry i is a UID whose expansion re-enters an object that is on
\* the traversal path: process_obj raises the cycle error for it.
TopEntryCycles(i) ==
    LET item == TopItems(plist_data)[i]
        ol == ObjectsList(plist_data)
    IN  /\ item.val.t = "uid"
        /\ item.val.i < Len(ol)
        /\ process_obj(ol[item.val.i + 1], TopId(item.val.i), ol, {}, 1).exc
             = "NSKeyedArchiveException"

\* The mapping ret holds value v for the key name.
RetHolds(name, v) == \E j \in 1..Len(ret) : ret[j].name = name /\ ret[j].val = v

\* C1: when the expansion of a $top key meets a reference cycle, the cycle
\* error is caught inside parse_archive: no exception reaches the caller
\* and the returned mapping holds null for that key.
C1_CycleCaughtAndNull ==
    \A i \in 1..top_i :
        TopEntryCycles(i) =>
            /\ ar_pc # "raised"
            /\ RetHolds(TopItems(plist_data)[i].name, NoneV)


\* The pool object the $top entry called name refers to (None when the
\* entry is not a UID of the pool).
TopObjectId(name) ==
    LET top == plist_data.d["$top"].d
    IN  IF name \in DOMAIN top /\ top[name].t = "uid"
           /\ top[name].i < Len(ObjectsList(plist_data))
        THEN top[name].i ELSE -1
TopObject(name) == ObjectsList(plist_data)[TopObjectId(name) + 1]

\* The entry j of ret came from a pool object that is a mapping.
RetOfMapping(j) ==
    /\ ar_pc \in {"loop", "done"}
    /\ TopObjectId(ret[j].name) >= 0
    /\ TopObject(ret[j].name).t = "dict"

\* The value mapping m holds for key k.
ValueAt(m, k) ==
    IF m.t = "dict" THEN (IF k \in DOMAIN m.d THEN m.d[k] ELSE Uid(-1))
    ELSE IF m.t = "map" /\ \E i \in 1..Len(m.items) : m.items[i].k = Str(k)
    THEN m.items[CHOOSE i \in 1..Len(m.items) : m.items[i].k = Str(k)].v
    ELSE Uid(-1)

\* The value v of a mapping at addr, expanded by process_obj.
Expanded(v, addr, k) ==
    process_obj(v, ChildId(addr, KeyCode(k)), ObjectsList(plist_data), {addr}, 2)

\* C23: a pool object that is a mapping without $class is processed by
\* recursing into its values: the result holds, for every key, the value
\* expanded by process_obj (a UID replaced by the pool object it refers to,
\* '$null' by null).
C23_PlainMappingExpanded ==
    \A j \in 1..Len(ret) :
        (RetOfMapping(j) /\ "$class" \notin DOMAIN TopObject(ret[j].name).d) =>
            \A k \in DOMAIN TopObject(ret[j].name).d :
                LET e == Expanded(TopObject(ret[j].name).d[k],
                                  TopId(TopObjectId(ret[j].name)), k)
                IN  e.exc = "none" => ValueAt(ret[j].val, k) = e.val

\* The class names get_processors has a processor for.
ProcessorNames ==
    {"NSArray", "NSAttributedString", "NSData", "NSDate", "NSDictionary",
     "NSMutableArray", "NSMutableAttributedString", "NSMutableData",
     "NSMutableDictionary", "NSMutableSet", "NSMutableString", "NSNull", "NSSet",
     "NSString", "NSURL", "NSUUID", "NSValue", "SFLListItem"}

\* The $classname the $class of mapping d at addr resolves to is a name
\* without a processor.
UnknownClass(d, addr) ==
    /\ "$class" \in DOMAIN d.d
    /\ LET c == Expanded(d.d["$class"], addr, "$class")
       IN  /\ c.exc = "none"
           /\ c.val.t = "dict"
           /\ "$classname" \in DOMAIN c.val.d
           /\ c.val.d["$classname"].t = "str"
           /\ c.val.d["$classname"].s \notin ProcessorNames

\* C24: a mapping with a $class whose $classname has no processor gives a
\* warning and the raw mapping itself as its value.
C24_UnknownClassRaw ==
    \A j \in 1..Len(ret) :
        (RetOfMapping(j)
         /\ UnknownClass(TopObject(ret[j].name), TopId(TopObjectId(ret[j].name)))) =>
            /\ ret[j].val = TopObject(ret[j].name)
            /\ \E i \in 1..Len(ar_log) : ar_log[i] = "warning"

\* The pool of the archive is one of Pools.
PoolOfShapes ==
    /\ Len(ObjectsList(plist_data)) = PoolSize
    /\ \A i \in 1..PoolSize : ObjectsList(plist_data)[i] \in PoolShapes

\* The pool object a chain of UIDs from slot i ends at (None when the chain
\* does not end within fuel steps).
RECURSIVE ChainEnd(_, _)
ChainEnd(i, fuel) ==
    LET o == ObjectsList(plist_data)[i + 1]
    IN  IF fuel = 0 THEN NoneV
        ELSE IF o.t = "uid" THEN ChainEnd(o.i, fuel - 1) ELSE o

\* The pool slots the traversal enters from slot i of a pool of Pools: the
\* target of a UID; for a mapping with $class its class and, when the class
\* is an NSArray, the members of NS.objects.
RefsOf(i) ==
    LET o == ObjectsList(plist_data)[i + 1]
    IN  CASE o.t = "uid" -> {o.i}
          [] o.t = "dict" /\ "$class" \in DOMAIN o.d ->
                {o.d["$class"].i}
                \cup (IF ChainEnd(o.d["$class"].i, PoolSize)
                         = DictV("$classname" :> Str("NSArray"))
                      THEN {o.d["NS.objects"].v[k].i :
                              k \in 1..Len(o.d["NS.objects"].v)}
                      ELSE {})
          [] OTHER -> {}

\* The slots reached from the slots S in at most n steps.
RECURSIVE Closure(_, _)
Closure(S, n) ==
    IF n = 0 THEN S ELSE Closure(S \cup UNION {RefsOf(x) : x \in S}, n - 1)

\* The traversal from slot i comes back to an object that is on its path.
ReentersPath(i) ==
    \E x \in Closure({i}, PoolSize) : x \in Closure(RefsOf(x), PoolSize)

\* The sets of parents process_obj is entered with: none, or the first pool
\* object on the path.
ParentSets == {{}, {TopId(0)}}

\* On a normal return of process_obj the parents set is what it was on entry.
C25_ParentsRestored ==
    (ar_pc = "call" /\ PoolOfShapes) =>
        \A i \in PoolIdx, P \in ParentSets :
            LET r == process_obj(ObjectsList(plist_data)[i + 1], TopId(i),
                                 ObjectsList(plist_data), P, 1)
            IN  r.exc = "none" => r.parents = P

\* The $top entry called name refers to an NSArray whose NS.objects names
\* one pool object twice, and that object expands without an error.
TwiceReferred(name) ==
    /\ PoolOfShapes
    /\ TopObjectId(name) >= 0
    /\ LET o == TopObject(name)
       IN  /\ o.t = "dict"
           /\ "$class" \in DOMAIN o.d
           /\ ChainEnd(o.d["$class"].i, PoolSize) = DictV("$classname" :> Str("NSArray"))
           /\ ~ReentersPath(TopObjectId(name))

\* The expansion of the pool object the members of NS.objects refer to.
MemberValue(name) ==
    process_obj(TopObject(name).d["NS.objects"].v[1],
                ChildId(ChildId(TopId(TopObjectId(name)), KeyCode("NS.objects")), 1),
                ObjectsList(plist_data), {}, 3).val

\* A pool object referred to from two sibling positions is expanded at both.
C25_SiblingsExpanded ==
    \A i \in 1..top_i :
        TwiceReferred(TopItems(plist_data)[i].name) =>
            /\ i = top_i => ar_exc = "none"
            /\ RetHolds(TopItems(plist_data)[i].name,
                        ListV(<<MemberValue(TopItems(plist_data)[i].name),
                                MemberValue(TopItems(plist_data)[i].name)>>))

\* The cycle error is raised for a $top entry exactly when its traversal
\* comes back to an object on its path.
C25_CycleIffReentered ==
    PoolOfShapes =>
        \A i \in 1..top_i :
            TopObjectId(TopItems(plist_data)[i].name) >= 0 =>
                (ReentersPath(TopObjectId(TopItems(plist_data)[i].name))
                 <=> (i = top_i /\ ar_exc = "NSKeyedArchiveException"))

\* C25: process_obj tracks the visited objects per traversal path: a normal
\* return leaves the parents set as it was on entry, so an object referred
\* to from two sibling positions is expanded at both without a cycle error,
\* and the cycle error is raised exactly when an object is entered again
\* while it is on the current path.
C25_PerPathTracking ==
    /\ C25_ParentsRestored
    /\ C25_SiblingsExpanded
    /\ C25_CycleIffReentered

\* C25 witness: the root is an NSArray whose two members are the same pool
\* object, the string 'hello': the call returned ['hello', 'hello'].
C25_Witness ==
    /\ ar_pc = "done"
    /\ TwiceReferred("root")
    /\ TopObject("root").d["NS.objects"] = ListV(<<Uid(1), Uid(1)>>)
    /\ RetHolds("root", ListV(<<Str("hello"), Str("hello")>>))

-----------------------------------------------------------------------------
(* Octet strings and the struct module.                                    *)
(* A blob is a sequence of octets; Python offset o is index o + 1.         *)

Min(a, b) == IF a < b THEN a ELSE b

\* buf[a:b] for 0 <= a, 0 <= b: slicing never fails, it truncates.
Slice(buf, a, b) ==
    IF a >= Len(buf) \/ b <= a THEN <<>> ELSE SubSeq(buf, a + 1, Min(b, Len(buf)))

\* struct.unpack_from(fmt, buf, off) of an n-octet format succeeds iff the
\* n octets lie inside the buffer; otherwise it raises struct.error.
CanUnpackFrom(buf, off, n) == off + n <= Len(buf)

\* Little-endian and big-endian unsigned integers read at offset off.
U16LE(buf, off) == buf[off + 1] + 256 * buf[off + 2]
U32LE(buf, off) ==
    buf[off + 1] + 256 * buf[off + 2] + 65536 * buf[off + 3]
    + 16777216 * buf[off + 4]
U16BE(buf, off) == 256 * buf[off + 1] + buf[off + 2]

\* struct.pack('<H', n), struct.pack('<I', n) and struct.pack('>H', n).
LE16(n) == <<n % 256, n \div 256>>
LE32(n) == <<n % 256, (n \div 256) % 256, (n \div 65536) % 256, n \div 16777216>>
BE16(n) == <<n \div 256, n % 256>>

\* Signed reading of an unsigned value of the given number of bits.
Signed(n, half) == IF n >= half THEN n - 2 * half ELSE n

\* Whether every octet of b is zero.
AllZero(b) == \A i \in 1..Len(b) : b[i] = 0

\* bytes.decode('utf-8') succeeds on ASCII octets.  The octets >= 128 of
\* the model's blobs never form a valid multi-octet sequence, so they make
\* the decoding fail.
Utf8Valid(b) == \A i \in 1..Len(b) : b[i] < 128

\* The decimal digits of a natural number, as character codes.
RECURSIVE Digits(_)
Digits(n) == IF n < 10 THEN <<48 + n>> ELSE Append(Digits(n \div 10), 48 + (n % 10))

HexDigit(n) == IF n < 10 THEN 48 + n ELSE 87 + n

\* repr() of one octet inside a bytes literal quoted by q.
ReprOctet(o, q) ==
    CASE o = 92 -> <<92, 92>>
      [] o = q  -> <<92, q>>
      [] o = 9  -> <<92, 116>>
      [] o = 10 -> <<92, 110>>
      [] o = 13 -> <<92, 114>>
      [] o < 32 \/ o >= 127 -> <<92, 120, HexDigit(o \div 16), HexDigit(o % 16)>>
      [] OTHER -> <<o>>

RECURSIVE ReprOctets(_, _)
ReprOctets(b, q) ==
    IF b = <<>> THEN <<>> ELSE ReprOctet(Head(b), q) \o ReprOctets(Tail(b), q)

\* repr() of a bytes object: b'...', or b"..." when it holds ' and no ".
ReprBytes(b) ==
    LET q == IF (\E i \in 1..Len(b) : b[i] = 39) /\ ~(\E i \in 1..Len(b) : b[i] = 34)
             THEN 34 ELSE 39
    IN  <<98, q>> \o ReprOctets(b, q) \o <<q>>

\* str(x), as character codes.
StrOf(x) ==
    CASE x.t = "text"  -> x.c
      [] x.t = "int"   -> IF x.n < 0 THEN <<45>> \o Digits(0 - x.n) ELSE Digits(x.n)
      [] x.t = "bool"  -> IF x.tf THEN <<84, 114, 117, 101>> ELSE <<70, 97, 108, 115, 101>>
      [] x.t = "none"  -> <<78, 111, 110, 101>>
      [] x.t = "bytes" -> ReprBytes(x.b)

\* sep.join(parts) for sequences of character codes.
RECURSIVE JoinCodes(_, _)
JoinCodes(parts, sep) ==
    IF parts = <<>> THEN <<>>
    ELSE IF Len(parts) = 1 THEN parts[1]
    ELSE parts[1] \o sep \o JoinCodes(Tail(parts), sep)

\* The elements a for loop over x visits: the items of a list, the octets
\* of a bytes object as ints.
Elements(x) ==
    CASE x.t = "list"  -> x.v
      [] x.t = "bytes" -> [i \in 1..Len(x.b) |-> IntV(x.b[i])]

\* [f(x) for x in seq if x]: the truthy elements of seq.
RECURSIVE TruthyOnly(_)
TruthyOnly(seq) ==
    IF seq = <<>> THEN <<>>
    ELSE (IF Truthy(Head(seq)) THEN <<Head(seq)>> ELSE <<>>) \o TruthyOnly(Tail(seq))

StrEach(seq) == [i \in 1..Len(seq) |-> StrOf(seq[i])]

-----------------------------------------------------------------------------
(* utils.py                                                                *)

\* interpret_flags(bitmask, values) on a 64-bit mask given by its 8
\* little-endian octets: the descriptions of the set bits joined by ', ', in
\* table order; None for a zero mask.
BitSet(octets, bit) == (octets[(bit \div 8) + 1] \div (2 ^ (bit % 8))) % 2 = 1

RECURSIVE FlagNames(_, _)
FlagNames(octets, values) ==
    IF values = <<>> THEN <<>>
    ELSE (IF BitSet(octets, Head(values).bit) THEN <<Head(values).name>> ELSE <<>>)
         \o FlagNames(octets, Tail(values))

RECURSIVE JoinStr(_, _)
JoinStr(parts, sep) ==
    IF parts = <<>> THEN ""
    ELSE IF Len(parts) = 1 THEN parts[1]
    ELSE parts[1] \o sep \o JoinStr(Tail(parts), sep)

interpret_flags(octets, values) ==
    IF AllZero(octets) THEN NoneV ELSE Str(JoinStr(FlagNames(octets, values), ", "))

-----------------------------------------------------------------------------
(* BookmarkParser (bookmark.py)                                            *)

BM_HEADER_size == 16
TOC_HEADER_size == 20
TOC_DATA_HEADER_size == 12
RECORD_HEADER_size == 8

STRING_TYPE == \H100
BYTES_TYPE == \H200
NUMBER_TYPE == \H300
DATE_TYPE == \H400
BOOL_TYPE == \H500
ARRAY_TYPE == \H600
UUID_TYPE == \H800
URL_TYPE == \H900
NULL_TYPE == \HA00

\* record_data_type & EXPECTED_TYPE_MASK (0xffffff00)
GeneralType(dt) == dt - (dt % 256)

\* FIELDS: field_id -> (expected data types, field_name); a field whose name
\* is None is not surfaced.  (0x800001ac and 0x800001d8, both not surfaced,
\* are left out: they do not fit the checker's integers.)
Field(types, name) == [types |-> types, name |-> name, surfaced |-> TRUE]
Hidden(types) == [types |-> types, name |-> "", surfaced |-> FALSE]
FIELDS ==
    (\H1004 :> Field({ARRAY_TYPE}, "path"))
    @@ (\H1005 :> Field({ARRAY_TYPE}, "inode_path"))
    @@ (\H1010 :> Field({BYTES_TYPE}, "resource_props"))
    @@ (\H1020 :> Field({STRING_TYPE, URL_TYPE}, "target_filename"))
    @@ (\H1030 :> Field({NUMBER_TYPE}, "target_inode"))
    @@ (\H1040 :> Field({DATE_TYPE}, "creation_date"))
    @@ (\H2000 :> Field({ARRAY_TYPE}, "volume_info_depths"))
    @@ (\H2002 :> Field({STRING_TYPE, URL_TYPE}, "volume_path"))
    @@ (\H2005 :> Field({STRING_TYPE, URL_TYPE}, "volume_url"))
    @@ (\H2010 :> Field({STRING_TYPE}, "volume_name"))
    @@ (\H2011 :> Field({STRING_TYPE, UUID_TYPE}, "volume_uuid"))
    @@ (\H2012 :> Field({NUMBER_TYPE}, "volume_size"))
    @@ (\H2013 :> Field({DATE_TYPE}, "volume_creation_date"))
    @@ (\H2020 :> Field({BYTES_TYPE}, "volume_props"))
    @@ (\H2030 :> Field({BOOL_TYPE}, "volume_was_boot"))
    @@ (\H2040 :> Field({NUMBER_TYPE}, "disk_image_depth"))
    @@ (\H2050 :> Field({STRING_TYPE, URL_TYPE}, "volume_mount_point"))
    @@ (\Hc001 :> Hidden({NUMBER_TYPE}))
    @@ (\Hc011 :> Field({STRING_TYPE}, "user_name"))
    @@ (\Hc012 :> Field({NUMBER_TYPE}, "user_uid"))
    @@ (\Hd001 :> Hidden({BOOL_TYPE}))
    @@ (\Hd010 :> Hidden({NUMBER_TYPE}))
    @@ (\He003 :> Hidden({ARRAY_TYPE}))
    @@ (\Hf017 :> Field({STRING_TYPE}, "display_name"))
    @@ (\Hf021 :> Hidden({BYTES_TYPE}))
    @@ (\Hf030 :> Field({NUMBER_TYPE}, "bookmark_creation_time"))
    @@ (\Hf080 :> Field({BYTES_TYPE}, "sandbox_rw_extension"))
    @@ (\Hf081 :> Field({BYTES_TYPE}, "sandbox_ro_extension"))
    @@ (\Hfe00 :> Hidden({BYTES_TYPE}))

RESOURCE_PROPERTY_FLAGS ==
    <<[bit |-> 0, name |-> "IsRegularFile"],
      [bit |-> 1, name |-> "IsDirectory"],
      [bit |-> 2, name |-> "IsSymbolicLink"],
      [bit |-> 3, name |-> "IsVolume"], [bit |-> 4, name |-> "IsPackage"],
      [bit |-> 5, name |-> "IsSystemImmutable"],
      [bit |-> 6, name |-> "IsUserImmutable"],
      [bit |-> 7, name |-> "IsHidden"],
      [bit |-> 8, name |-> "HasHiddenExtension"],
      [bit |-> 9, name |-> "IsApplication"],
      [bit |-> 10, name |-> "IsCompressed"],
      [bit |-> 11, name |-> "CanSetHiddenExtension"],
      [bit |-> 12, name |-> "IsReadable"],
      [bit |-> 13, name |-> "IsWriteable"],
      [bit |-> 14, name |-> "IsExecutable"],
      [bit |-> 15, name |-> "IsAliasFile"],
      [bit |-> 16, name |-> "IsMountTrigger"]>>

VOLUME_PROPERTY_FLAGS ==
    <<[bit |-> 0, name |-> "IsLocal"], [bit |-> 1, name |-> "IsAutomount"],
      [bit |-> 2, name |-> "DontBrowse"], [bit |-> 3, name |-> "IsReadOnly"],
      [bit |-> 4, name |-> "IsQuarantined"],
      [bit |-> 5, name |-> "IsEjectable"],
      [bit |-> 6, name |-> "IsRemovable"],
      [bit |-> 7, name |-> "IsInternal"], [bit |-> 8, name |-> "IsExternal"],
      [bit |-> 9, name |-> "IsDiskImage"],
      [bit |-> 10, name |-> "IsFileVault"],
      [bit |-> 11, name |-> "IsLocaliDiskMirror"],
      [bit |-> 12, name |-> "IsiPod"], [bit |-> 13, name |-> "IsiDisk"],
      [bit |-> 14, name |-> "IsCD"], [bit |-> 15, name |-> "IsDVD"],
      [bit |-> 16, name |-> "IsDeviceFileSystem"],
      [bit |-> 32, name |-> "SupportsPersistentIDs"],
      [bit |-> 33, name |-> "SupportsSearchFS"],
      [bit |-> 34, name |-> "SupportsExchange"],
      [bit |-> 36, name |-> "SupportsSymbolicLinks"],
      [bit |-> 37, name |-> "SupportsDenyModes"],
      [bit |-> 38, name |-> "SupportsCopyFile"],
      [bit |-> 39, name |-> "SupportsReadDirAttr"],
      [bit |-> 40, name |-> "SupportsJournaling"],
      [bit |-> 41, name |-> "SupportsRename"],
      [bit |-> 42, name |-> "SupportsFastStatFS"],
      [bit |-> 43, name |-> "SupportsCaseSensitiveNames"],
      [bit |-> 44, name |-> "SupportsCasePreservedNames"],
      [bit |-> 45, name |-> "SupportsFLock"],
      [bit |-> 46, name |-> "HasNoRootDirectoryTimes"],
      [bit |-> 47, name |-> "SupportsExtendedSecurity"],
      [bit |-> 48, name |-> "Supports2TBFileSize"],
      [bit |-> 49, name |-> "SupportsHardLinks"],
      [bit |-> 50, name |-> "SupportsMandatoryByteRangeLocks"],
      [bit |-> 51, name |-> "SupportsPathFromID"],
      [bit |-> 53, name |-> "IsJournaling"],
      [bit |-> 54, name |-> "SupportsSparseFiles"],
      [bit |-> 55, name |-> "SupportsZeroRuns"],
      [bit |-> 56, name |-> "SupportsVolumeSizes"],
      [bit |-> 57, name |-> "SupportsRemoteEvents"],
      [bit |-> 58, name |-> "SupportsHiddenFiles"],
      [bit |-> 59, name |-> "SupportsDecmpFSCompression"],
      [bit |-> 60, name |-> "Has64BitObjectIDs"]>>


\* The outcome of a decoding call: the exception it raised ("none": it
\* returned), the value and the levels of the messages logged.
OkB(val, log) == [exc |-> "none", val |-> val, log |-> log]
RaiseB(exc, log) == [exc |-> exc, val |-> NoneV, log |-> log]

\* A record (a dict in insertion order) is a sequence of [k, v] items.
Item(k, v) == [k |-> k, v |-> v]
Has(record, k) == \E i \in 1..Len(record) : record[i].k = k
Get(record, k) == record[CHOOSE i \in 1..Len(record) : record[i].k = k].v

\* The value of little-endian octets.
RECURSIVE LEValue(_)
LEValue(octets) ==
    IF octets = <<>> THEN 0 ELSE Head(octets) + 256 * LEValue(Tail(octets))

Reverse(octets) == [i \in 1..Len(octets) |-> octets[Len(octets) + 1 - i]]

\* The integer of 1, 2, 4 or 8 little-endian octets; a value beyond 31 bits
\* is kept by its octets.
IntOf(data, signed) ==
    IF Len(data) = 1 THEN IntV(IF signed THEN Signed(data[1], 128) ELSE data[1])
    ELSE IF Len(data) = 2
    THEN IntV(IF signed THEN Signed(LEValue(data), 32768) ELSE LEValue(data))
    ELSE IF data[4] < 128 /\ AllZero(SubSeq(data, 5, Len(data)))
    THEN IntV(LEValue(SubSeq(data, 1, 4)))
    ELSE IF signed /\ data[4] >= 128
            /\ \A i \in 5..Len(data) : data[i] = 255
    THEN IntV(LEValue(SubSeq(data, 1, 3)) + 16777216 * (data[4] - 256))
    ELSE NumV(data)

\* struct.unpack(fmt, data)[0] for a format of one integer of the given size:
\* struct.error unless data has exactly that size.
UnpackInt(data, size, signed) ==
    IF Len(data) # size THEN RaiseB("struct.error", <<>>)
    ELSE OkB(IntOf(data, signed), <<>>)

\* struct.unpack('<f' or '<d', data)[0]
UnpackFloat(data, size) ==
    IF Len(data) # size THEN RaiseB("struct.error", <<>>)
    ELSE OkB(FloatV(Reverse(data)), <<>>)

\* x.decode('utf-8')
DecodeUtf8(x) ==
    IF Utf8Valid(x) THEN OkB(TextV(x), <<>>) ELSE RaiseB("UnicodeDecodeError", <<>>)

\* 0x400: parse_mac_absolute_time(struct.unpack_from('>d', data)[0])
ParseDate(data) ==
    IF Len(data) < 8 THEN RaiseB("struct.error", <<>>)
    ELSE OkB(parse_mac_absolute_time(FloatV(SubSeq(data, 1, 8))), <<>>)

\* guid_str_from_bytes(data, 'be') (utils.py): UUID(bytes=data) raises
\* ValueError unless data has 16 octets.
guid_str_from_bytes(data) ==
    IF Len(data) # 16 THEN RaiseB("ValueError", <<>>)
    ELSE OkB([t |-> "uuid", raw |-> data], <<>>)

\* urllib.parse.urljoin(base, url): a falsy base gives url, a falsy url
\* gives base; str with non-str raises TypeError; two bytes objects are
\* decoded as ASCII first; any other pair has no decode method.
urljoin(base, url, log) ==
    IF ~Truthy(base) THEN OkB(url, log)
    ELSE IF ~Truthy(url) THEN OkB(base, log)
    ELSE IF base.t = "text" /\ url.t = "text"
    THEN OkB([t |-> "urljoin", base |-> base, url |-> url], log)
    ELSE IF base.t = "text" \/ url.t = "text" THEN RaiseB("TypeError", log)
    ELSE IF base.t = "bytes" /\ url.t = "bytes"
    THEN (IF Utf8Valid(base.b) /\ Utf8Valid(url.b)
          THEN OkB([t |-> "urljoin", base |-> base, url |-> url], log)
          ELSE RaiseB("UnicodeDecodeError", log))
    ELSE RaiseB("AttributeError", log)

RECURSIVE parse_record_data(_, _, _, _, _, _)
RECURSIVE array_loop(_, _, _, _, _, _, _)

\* _parse_record_data_601, body of the loop: the component at an offset.
array_component(buf, data_offset, component_offset, depth) ==
    IF ~CanUnpackFrom(buf, component_offset, RECORD_HEADER_size)
    THEN RaiseB("struct.error", <<>>)
    ELSE parse_record_data(
             buf, data_offset, U32LE(buf, component_offset),
             U32LE(buf, component_offset + 4),
             Slice(buf, component_offset + RECORD_HEADER_size,
                   component_offset + RECORD_HEADER_size
                   + U32LE(buf, component_offset)),
             depth + 1)

\* _parse_record_data_601: parsed_values.append(...)
array_append(r, buf, data_offset, data, i, acc, log, depth) ==
    IF r.exc # "none" THEN RaiseB(r.exc, log \o r.log)
    ELSE array_loop(buf, data_offset, data, i + 1, Append(acc, r.val),
                    log \o r.log, depth)

\* _parse_record_data_601: for p in pointers
array_loop(buf, data_offset, data, i, acc, log, depth) ==
    IF i > Len(data) \div 4 THEN OkB(ListV(acc), log)
    ELSE array_append(
             array_component(buf, data_offset,
                             U32LE(data, 4 * (i - 1)) + data_offset, depth),
             buf, data_offset, data, i, acc, log, depth)

\* struct.unpack('<{}I'.format(record_length // 4), data) raises struct.error
\* unless data has exactly that many octets.
_parse_record_data_601(data, record_length, buf, data_offset, depth) ==
    IF Len(data) # 4 * (record_length \div 4) THEN RaiseB("struct.error", <<>>)
    ELSE array_loop(buf, data_offset, data, 1, <<>>, <<>>, depth)

AllText(v) == \A i \in 1..Len(v) : v[i].t = "text"
TextCodes(v) == [i \in 1..Len(v) |-> v[i].c]

\* _parse_record_data_902, after the array is parsed: '/'.join raises
\* TypeError on an element that is not a str, before the warning.
url_of_parsed(r) ==
    IF r.exc # "none" THEN r
    ELSE IF Len(r.val.v) = 2 THEN urljoin(r.val.v[1], r.val.v[2], r.log)
    ELSE IF AllText(r.val.v)
    THEN OkB(TextV(JoinCodes(TextCodes(r.val.v), <<47>>)), r.log \o <<"warning">>)
    ELSE RaiseB("TypeError", r.log)

_parse_record_data_902(data, record_length, buf, data_offset, depth) ==
    url_of_parsed(_parse_record_data_601(data, record_length, buf, data_offset, depth))

_parse_record_data_a01(data, record_length) ==
    OkB(NoneV, IF record_length # 0 THEN <<"warning">> ELSE <<>>)

\* parse_record_data: parsers.get(data_type, identity)(data, ...).  depth is
\* the number of parse_record_data calls on the stack below this one.
parse_record_data(buf, data_offset, record_length, data_type, data, depth) ==
    IF depth > RecursionLimit THEN RaiseB("RecursionError", <<>>)
    ELSE CASE data_type \in {\H101, \H901} -> DecodeUtf8(data)
           [] data_type = \H201 -> OkB(BytesV(data), <<>>)
           [] data_type = \H301 -> UnpackInt(data, 1, TRUE)
           [] data_type = \H302 -> UnpackInt(data, 2, TRUE)
           [] data_type = \H303 -> UnpackInt(data, 4, TRUE)
           [] data_type = \H304 -> UnpackInt(data, 8, TRUE)
           [] data_type \in {\H305, \H30C} -> UnpackFloat(data, 4)
           [] data_type \in {\H306, \H30D} -> UnpackFloat(data, 8)
           [] data_type = \H307 -> UnpackInt(data, 1, FALSE)
           [] data_type = \H308 -> UnpackInt(data, 2, FALSE)
           [] data_type \in {\H309, \H30A, \H30E, \H30F} -> UnpackInt(data, 4, FALSE)
           [] data_type = \H30B -> UnpackInt(data, 8, FALSE)
           [] data_type = \H400 -> ParseDate(data)
           [] data_type = \H500 -> OkB(BoolV(FALSE), <<>>)
           [] data_type = \H501 -> OkB(BoolV(TRUE), <<>>)
           [] data_type = \H601 ->
                _parse_record_data_601(data, record_length, buf, data_offset, depth)
           [] data_type = \H801 -> guid_str_from_bytes(data)
           [] data_type = \H902 ->
                _parse_record_data_902(data, record_length, buf, data_offset, depth)
           [] data_type = \HA01 -> _parse_record_data_a01(data, record_length)
           [] OTHER -> OkB(BytesV(data), <<>>)

\* What a for loop or a comprehension over x can iterate.
Iterable(x) == x.t \in {"list", "bytes", "text"}

\* A variant of join_path that keeps the empty elements (the mutant of C10).
join_path_unfiltered(array) ==
    IF ~Iterable(array) THEN RaiseB("TypeError", <<>>)
    ELSE OkB(TextV(<<47>> \o JoinCodes(StrEach(Elements(array)), <<47>>)), <<>>)

\* join_path: '/' + '/'.join([str(x) for x in array if x])
join_path(array) ==
    IF ~Iterable(array) THEN RaiseB("TypeError", <<>>)
    ELSE OkB(TextV(<<47>> \o JoinCodes(StrEach(TruthyOnly(Elements(array))), <<47>>)),
             <<>>)

\* ', '.join([str(y) for y in x])
join_depths(x) ==
    IF ~Iterable(x) THEN RaiseB("TypeError", <<>>)
    ELSE OkB(TextV(JoinCodes(StrEach(Elements(x)), <<44, 32>>)), <<>>)

\* interpret_flags(struct.unpack_from('<Q', x[:8])[0], values)
flags_of(x, values) ==
    IF x.t # "bytes" THEN RaiseB("TypeError", <<>>)
    ELSE IF Len(x.b) < 8 THEN RaiseB("struct.error", <<>>)
    ELSE OkB(interpret_flags(SubSeq(x.b, 1, 8), values), <<>>)

\* parsed.split(b';')[0] and parsed.split(b';')[-1]
RECURSIVE FirstPart(_)
FirstPart(b) ==
    IF b = <<>> \/ Head(b) = 59 THEN <<>> ELSE <<Head(b)>> \o FirstPart(Tail(b))

RECURSIVE LastPart(_)
LastPart(b) ==
    IF \E i \in 1..Len(b) : b[i] = 59 THEN LastPart(Tail(b)) ELSE b

\* b.rstrip(b'\x00')
RECURSIVE RStripZero(_)
RStripZero(b) ==
    IF b # <<>> /\ b[Len(b)] = 0 THEN RStripZero(SubSeq(b, 1, Len(b) - 1)) ELSE b

\* _decode_sandbox_value
_decode_sandbox_value(parsed) ==
    IF parsed.t # "bytes" THEN RaiseB("AttributeError", <<>>)
    ELSE IF ~Utf8Valid(FirstPart(parsed.b)) \/ ~Utf8Valid(RStripZero(LastPart(parsed.b)))
    THEN RaiseB("UnicodeDecodeError", <<>>)
    ELSE OkB(<<Item("sandbox_uuid", TextV(FirstPart(parsed.b))),
               Item("sandbox_path", TextV(RStripZero(LastPart(parsed.b))))>>, <<>>)

\* {field_name: value} from the outcome of computing the value
one_field(field_name, r) ==
    IF r.exc # "none" THEN r ELSE OkB(<<Item(field_name, r.val)>>, r.log)

\* decode_value: decoders.get(item_type, lambda x: {field_name: x})(parsed)
decode_parsed(field_name, item_type, x) ==
    CASE item_type \in {\H1004, \H1005} -> one_field(field_name, join_path(x))
      [] item_type = \H1010 ->
            one_field(field_name, flags_of(x, RESOURCE_PROPERTY_FLAGS))
      [] item_type = \H2000 -> one_field(field_name, join_depths(x))
      [] item_type = \H2020 ->
            one_field(field_name, flags_of(x, VOLUME_PROPERTY_FLAGS))
      [] item_type = \Hf030 ->
            one_field(field_name, OkB(parse_mac_absolute_time(x), <<>>))
      [] item_type \in {\Hf080, \Hf081} -> _decode_sandbox_value(x)
      [] OTHER -> one_field(field_name, OkB(x, <<>>))

decode_value_of(r, field_name, item_type) ==
    IF r.exc # "none" THEN r
    ELSE [decode_parsed(field_name, item_type, r.val) EXCEPT !.log = r.log \o @]

\* decode_value: the field dict (a sequence of items) of one record.
decode_value(field_name, buf, data_offset, item_type, record_length, data_type, data) ==
    decode_value_of(parse_record_data(buf, data_offset, record_length, data_type, data, 0),
                    field_name, item_type)

\* A variant of update_record that stores the new value of a key that is
\* present and reports nothing (the mutant of C9).
RECURSIVE update_record_overwrite(_, _)
update_record_overwrite(record, field_dict) ==
    IF field_dict = <<>> THEN [rec |-> record, log |-> <<>>]
    ELSE IF Has(record, Head(field_dict).k)
    THEN update_record_overwrite(
             [i \in 1..Len(record) |->
                 IF record[i].k = Head(field_dict).k THEN Head(field_dict) ELSE record[i]],
             Tail(field_dict))
    ELSE update_record_overwrite(Append(record, Head(field_dict)), Tail(field_dict))

\* update_record: a key already in the record is reported and kept.
RECURSIVE update_record(_, _)
update_record(record, field_dict) ==
    IF field_dict = <<>> THEN [rec |-> record, log |-> <<>>]
    ELSE IF Has(record, Head(field_dict).k)
    THEN [update_record(record, Tail(field_dict)) EXCEPT !.log = <<"error">> \o @]
    ELSE update_record(Append(record, Head(field_dict)), Tail(field_dict))

\* The outcome of process_field: the exception, the record and the log.
FieldOutcome(exc, rec, log) == [exc |-> exc, rec |-> rec, log |-> log]

process_field_update(r, u) == FieldOutcome("none", u.rec, r.log \o u.log)

process_field_decoded(r, cur_toc_entry) ==
    IF r.exc # "none" THEN FieldOutcome(r.exc, cur_toc_entry, r.log)
    ELSE process_field_update(r, update_record(cur_toc_entry, r.val))

\* A variant of type_allowed that takes every class (the mutant of C21).
type_allowed_any(general_type, expected_data_types) == TRUE

\* process_field: general_type in expected_data_types + [cls.NULL_TYPE]
type_allowed(general_type, expected_data_types) ==
    general_type \in expected_data_types \cup {NULL_TYPE}

\* process_field
process_field(buf, data_offset, cur_toc_entry, rec_type, record_offset, record_length, record_data_type) ==
    IF rec_type \in DOMAIN FIELDS
    THEN IF ~FIELDS[rec_type].surfaced
         THEN FieldOutcome("none", cur_toc_entry, <<>>)
         ELSE IF ~type_allowed(GeneralType(record_data_type), FIELDS[rec_type].types)
         THEN FieldOutcome("none", cur_toc_entry, <<"error">>)
         ELSE process_field_decoded(
                  decode_value(FIELDS[rec_type].name, buf, data_offset, rec_type,
                               record_length, record_data_type,
                               Slice(buf, record_offset + RECORD_HEADER_size,
                                     record_offset + RECORD_HEADER_size + record_length)),
                  cur_toc_entry)
    ELSE FieldOutcome("none", cur_toc_entry, <<"warning">>)

\* parse_toc: one entry of contents (record_type_hex and hex_offset, never
\* read, are left out).
toc_entry_at(buf, at, data_offset, toc_index, depth) ==
    [record_type |-> U32LE(buf, at),
     flags |-> U32LE(buf, at + 8),
     record_offset |-> U32LE(buf, at + 4) + data_offset,
     index |-> toc_index,
     depth |-> depth]

\* parse_toc: for i in range(count)
RECURSIVE toc_entries(_, _, _, _, _, _, _, _)
toc_entries(buf, offset, data_offset, toc_index, depth, count, i, contents) ==
    IF i >= count THEN [exc |-> "none", contents |-> contents]
    ELSE IF ~CanUnpackFrom(buf, offset + TOC_HEADER_size + i * TOC_DATA_HEADER_size,
                           TOC_DATA_HEADER_size)
    THEN [exc |-> "struct.error", contents |-> contents]
    ELSE toc_entries(buf, offset, data_offset, toc_index, depth, count, i + 1,
             Append(contents,
                    toc_entry_at(buf, offset + TOC_HEADER_size + i * TOC_DATA_HEADER_size,
                                 data_offset, toc_index, depth)))

toc_result(e, next_toc) ==
    [exc |-> e.exc, contents |-> e.contents, next_toc |-> next_toc]

\* parse_toc: (contents, next_toc)
parse_toc(buf, offset, data_offset, toc_index) ==
    IF ~CanUnpackFrom(buf, offset, TOC_HEADER_size)
    THEN [exc |-> "struct.error", contents |-> <<>>, next_toc |-> 0]
    ELSE toc_result(toc_entries(buf, offset, data_offset, toc_index,
                                U32LE(buf, offset + 8), U32LE(buf, offset + 16),
                                0, <<>>),
                    U32LE(buf, offset + 12))

-----------------------------------------------------------------------------
(* Input blobs of parse_bookmark.                                          *)
(*                                                                         *)
(* A blob is laid out as                                                   *)
(*   HEADER (magic, size, version, data_offset = HEADER.size)              *)
(*   u32 offset of the first TOC                                           *)
(*   the records of RecordPool                                             *)
(*   the TOC blocks                                                        *)
(*   one last record whose declared length runs past the end of the blob   *)
(* with every offset relative to data_offset, as in the format.            *)

\* Number of TOC blocks and of TOC entries of an input blob.
MaxTocs == 2
MaxEntries == 2
\* Number of TOC blocks get_toc is followed through on a chain that never
\* reaches next_toc == 0.
MaxTocVisits == 300

Raw(dtype, data) == [arr |-> FALSE, dtype |-> dtype, len |-> Len(data), data |-> data, ptrs |-> <<>>]
Arr(dtype, ptrs) == [arr |-> TRUE, dtype |-> dtype, len |-> 4 * Len(ptrs), data |-> <<>>, ptrs |-> ptrs]

\* The records every input blob holds; an array lists the indices of its
\* components.
RecordPool ==
    << Raw(\H101, <<97>>),                      \* 1: 'a'
       Raw(\H101, <<>>),                        \* 2: ''
       Raw(\H101, <<98>>),                      \* 3: 'b'
       Arr(\H601, <<1, 2, 3>>),                 \* 4: ['a', '', 'b']
       Arr(\H601, <<5>>),                       \* 5: an array holding itself
       Arr(\H601, <<7>>),                       \* 6: an array holding 7
       Arr(\H601, <<6>>),                       \* 7: an array holding 6
       Raw(\H201, <<117, 59, 112, 0>>),         \* 8: b'u;p\x00'
       Raw(\H201, <<118, 59, 113>>),            \* 9: b'v;q'
       Raw(\HA01, <<>>),                        \* 10: NULL
       Raw(\H303, <<5, 0, 0, 0>>),              \* 11: 5
       Arr(\H902, <<1, 3>>),                    \* 12: URL of 'a' and 'b'
       Raw(\H501, <<>>),                        \* 13: True
       Raw(\H201, <<33, 0, 0, 0, 0, 0, 0, 0>>), \* 14: flags 0x21
       Arr(\H601, <<2, 2>>) >>                  \* 15: ['', '']

RecordSize(r) == RECORD_HEADER_size + r.len

\* Offset of pool record i, relative to data_offset.
RECURSIVE PoolOffset(_)
PoolOffset(i) ==
    IF i = 1 THEN 4 ELSE PoolOffset(i - 1) + RecordSize(RecordPool[i - 1])

PoolEnd == PoolOffset(Len(RecordPool)) + RecordSize(RecordPool[Len(RecordPool)])

RECURSIVE Concat(_)
Concat(seqs) == IF seqs = <<>> THEN <<>> ELSE Head(seqs) \o Concat(Tail(seqs))

\* RECORD_HEADER (length, data type) and the data of a pool record.
RecordBytes(r) ==
    LE32(r.len) \o LE32(r.dtype)
    \o (IF r.arr THEN Concat([i \in 1..Len(r.ptrs) |-> LE32(PoolOffset(r.ptrs[i]))])
        ELSE r.data)

PoolBytes == Concat([i \in 1..Len(RecordPool) |-> RecordBytes(RecordPool[i])])

\* The last record: a string declaring 8 octets of which 4 are in the blob.
TailBytes == LE32(8) \o LE32(\H101) \o <<97, 98, 99, 100>>

TocSize(toc) == TOC_HEADER_size + TOC_DATA_HEADER_size * Len(toc.entries)

\* Offset of TOC k, relative to data_offset.
RECURSIVE TocOffset(_, _)
TocOffset(tocs, k) ==
    IF k = 1 THEN PoolEnd ELSE TocOffset(tocs, k - 1) + TocSize(tocs[k - 1])

TocsEnd(tocs) == TocOffset(tocs, Len(tocs)) + TocSize(tocs[Len(tocs)])

\* Offset of the record an entry refers to: a pool record, the last record
\* (0) or a place beyond the end of the blob (-1).
EntryRecordOffset(tocs, rec) ==
    IF rec > 0 THEN PoolOffset(rec)
    ELSE IF rec = 0 THEN TocsEnd(tocs)
    ELSE TocsEnd(tocs) + 100

\* TOC_DATA_HEADER (record_type, record_offset, flags)
EntryBytes(tocs, e) ==
    LE32(e.id) \o LE32(EntryRecordOffset(tocs, e.rec)) \o LE32(0)

\* next_toc of TOC k: the next block; for the last block 0, the block
\* itself or the first block.
NextTocOf(tocs, last, k) ==
    IF k < Len(tocs) THEN TocOffset(tocs, k + 1)
    ELSE IF last = "end" THEN 0
    ELSE IF last = "self" THEN TocOffset(tocs, k)
    ELSE TocOffset(tocs, 1)

\* TOC_HEADER (data_length, record_type, flags, depth, next_toc, count) and
\* the entries of TOC k.
TocBytes(tocs, last, k) ==
    LE32(TocSize(tocs[k]) - 8) \o LE16(\Hfffe) \o LE16(0) \o LE32(tocs[k].depth)
    \o LE32(NextTocOf(tocs, last, k)) \o LE32(Len(tocs[k].entries))
    \o Concat([i \in 1..Len(tocs[k].entries) |-> EntryBytes(tocs, tocs[k].entries[i])])

BookMagic == <<98, 111, 111, 107>>
AlisMagic == <<97, 108, 105, 115>>

\* HEADER (magic, size, version, data_offset)
HeaderBytes(magic, size) ==
    magic \o LE32(size) \o LE32(\H10040000) \o LE32(BM_HEADER_size)

BlobBody(tocs, last) ==
    LE32(TocOffset(tocs, 1)) \o PoolBytes
    \o Concat([k \in 1..Len(tocs) |-> TocBytes(tocs, last, k)])
    \o TailBytes

Blob(magic, tocs, last) ==
    LET body == BlobBody(tocs, last)
    IN  BytesV(HeaderBytes(magic, BM_HEADER_size + Len(body)) \o body)

\* The TOC entries of the inputs: a field ID and the record it refers to.
Entry(id, rec) == [id |-> id, rec |-> rec]
EntryChoices ==
    { Entry(\H1004, 4),  Entry(\H1004, 15), Entry(\H1004, 5),  Entry(\H1004, 6),
      Entry(\H1004, 10), Entry(\H1020, 1),  Entry(\H1020, 3),  Entry(\H1020, 0),
      Entry(\H1020, 12), Entry(\Hf080, 8),  Entry(\Hf081, 9),  Entry(\H9999, 1),
      Entry(\H1030, 1),  Entry(\H1030, 11), Entry(\H2020, 14), Entry(\H2030, 13),
      Entry(\Hd001, 13), Entry(\H1020, -1) }

\* The numbers of entries of n TOCs holding at most budget entries together.
RECURSIVE SumTo(_, _)
SumTo(sizes, k) == IF k = 0 THEN 0 ELSE SumTo(sizes, k - 1) + sizes[k]
TocSizes(n, budget) == {sizes \in [1..n -> 0..budget] : SumTo(sizes, n) <= budget}

\* The TOCs of the given sizes holding the entries es in order; TOC k of an
\* input has depth k.
TocsOf(sizes, es) ==
    [k \in 1..Len(sizes) |->
        [depth |-> k,
         entries |-> SubSeq(es, SumTo(sizes, k - 1) + 1, SumTo(sizes, k))]]

\* Chains that end, with up to MaxEntries entries; chains that loop, with
\* at most one entry.
IsChainOf(buf, budget, lasts) ==
    \E n \in 1..MaxTocs : \E sizes \in TocSizes(n, budget) :
        \E es \in [1..SumTo(sizes, n) -> EntryChoices] :
            \E last \in lasts : buf = Blob(BookMagic, TocsOf(sizes, es), last)

IsWellFormedBlob(buf) ==
    \/ IsChainOf(buf, MaxEntries, {"end"})
    \/ IsChainOf(buf, 1, {"self", "first"})

\* Blobs that are missing, short, of another magic, or cut.
OddBlobs ==
    { NoneV, BytesV(<<>>), BytesV(SubSeq(BookMagic, 1, 3)),
      BytesV(HeaderBytes(BookMagic, BM_HEADER_size)),
      BytesV(HeaderBytes(<<120, 120, 120, 120>>, BM_HEADER_size) \o LE32(0)),
      BytesV(HeaderBytes(BookMagic, BM_HEADER_size + 4) \o LE32(0)),
      BytesV(HeaderBytes(BookMagic, BM_HEADER_size + 4) \o LE32(4)),
      Blob(AlisMagic, <<[depth |-> 1, entries |-> <<Entry(\H1020, 1)>>]>>, "end") }

\* The input blobs.
IsBookmarkBlob(buf) == IsWellFormedBlob(buf) \/ buf \in OddBlobs
BookmarkIndexes == {7}

-----------------------------------------------------------------------------
(* parse_bookmark as a state machine: one step per TOC block followed and  *)
(* one step per TOC entry processed.                                       *)

InitBookmark ==
    /\ IsBookmarkBlob(bm_buf)
    /\ bm_idx \in BookmarkIndexes
    /\ bm_pc = "call"
    /\ toc_offset = 0
    /\ toc_count = 0
    /\ table_of_contents = <<>>
    /\ all_data = <<>>
    /\ toc_e = 0
    /\ bm_exc = "none"
    /\ bm_log = <<>>
    /\ ArIdle
    /\ AlIdle
    /\ calls = <<>>

\* data_offset, as unpacked from the header
DataOffset == U32LE(bm_buf.b, 12)

BmRaise(exc) ==
    /\ bm_pc' = "raised"
    /\ bm_exc' = exc

\* A variant of known_magic that takes every magic (the mutant of C11).
known_magic_any(magic) == TRUE

\* parse_bookmark: not (magic != b'book' and magic != b'alis')
known_magic(magic) == magic = BookMagic \/ magic = AlisMagic

\* parse_bookmark up to the while loop of get_toc: the checks of the blob,
\* the header, and the offset of the first TOC.
BmEnter ==
    /\ bm_pc = "call"
    /\ IF bm_buf = NoneV
       THEN bm_pc' = "done" /\ UNCHANGED <<toc_offset, bm_exc>>
       ELSE IF Len(bm_buf.b) < BM_HEADER_size
       THEN bm_pc' = "done" /\ UNCHANGED <<toc_offset, bm_exc>>
       ELSE IF ~known_magic(SubSeq(bm_buf.b, 1, 4))
       THEN bm_pc' = "done" /\ UNCHANGED <<toc_offset, bm_exc>>
       ELSE IF ~CanUnpackFrom(bm_buf.b, DataOffset, 4)
       THEN BmRaise("struct.error") /\ UNCHANGED toc_offset
       ELSE /\ toc_offset' = U32LE(bm_buf.b, DataOffset)
            /\ bm_pc' = "get_toc"
            /\ UNCHANGED bm_exc
    /\ UNCHANGED <<bm_buf, bm_idx, toc_count, table_of_contents, all_data, toc_e,
                   bm_log, arVars, alVars, sessVars>>

\* The effect of one iteration of the while loop with outcome r of parse_toc.
BmTocStore(r) ==
    IF r.exc # "none"
    THEN /\ BmRaise(r.exc)
         /\ UNCHANGED <<toc_offset, toc_count, table_of_contents>>
    ELSE /\ table_of_contents' = table_of_contents \o r.contents
         /\ toc_offset' = r.next_toc
         /\ toc_count' = toc_count + 1
         /\ UNCHANGED <<bm_pc, bm_exc>>

\* get_toc: one iteration of while toc_offset > 0
BmParseToc ==
    /\ bm_pc = "get_toc"
    /\ toc_offset > 0
    /\ toc_count < MaxTocVisits
    /\ BmTocStore(parse_toc(bm_buf.b, DataOffset + toc_offset, DataOffset, toc_count))
    /\ UNCHANGED <<bm_buf, bm_idx, all_data, toc_e, bm_log, arVars, alVars, sessVars>>

\* get_toc returns; all_data = [{'bookmark_index': idx} for _i in range(toc_count)]
BmTocDone ==
    /\ bm_pc = "get_toc"
    /\ toc_offset = 0
    /\ all_data' = [i \in 1..toc_count |-> <<Item("bookmark_index", IntV(bm_idx))>>]
    /\ bm_pc' = "fields"
    /\ UNCHANGED <<bm_buf, bm_idx, toc_offset, toc_count, table_of_contents, toc_e,
                   bm_exc, bm_log, arVars, alVars, sessVars>>

\* The TOC entry the for loop is at.
CurEntry == table_of_contents[toc_e + 1]

\* A variant of cur_toc_entry_index that writes every TOC entry to the first
\* record (the mutant of C8).
cur_toc_entry_index_first(toc_entry) == 1

\* cur_toc_entry = all_data[toc_entry['index']]
cur_toc_entry_index(toc_entry) == toc_entry.index + 1

\* if 'toc_depth' not in cur_toc_entry: cur_toc_entry['toc_depth'] = ...
with_toc_depth(cur_toc_entry, toc_entry) ==
    IF Has(cur_toc_entry, "toc_depth") THEN cur_toc_entry
    ELSE Append(cur_toc_entry, Item("toc_depth", IntV(toc_entry.depth)))

\* The body of the for loop for one TOC entry, on the record it belongs to.
field_step(buf, data_offset, cur_toc_entry, toc_entry) ==
    IF ~CanUnpackFrom(buf, toc_entry.record_offset, RECORD_HEADER_size)
    THEN FieldOutcome("struct.error", cur_toc_entry, <<>>)
    ELSE process_field(buf, data_offset, cur_toc_entry, toc_entry.record_type,
                       toc_entry.record_offset,
                       U32LE(buf, toc_entry.record_offset),
                       U32LE(buf, toc_entry.record_offset + 4))

\* The effect of one iteration of the for loop with outcome r.
BmFieldStore(r, index) ==
    /\ all_data' = [all_data EXCEPT ![index] = r.rec]
    /\ bm_log' = bm_log \o r.log
    /\ bm_exc' = r.exc
    /\ bm_pc' = IF r.exc = "none" THEN "fields" ELSE "raised"
    /\ toc_e' = toc_e + 1

\* parse_bookmark: one iteration of for toc_entry in table_of_contents
BmField ==
    /\ bm_pc = "fields"
    /\ toc_e < Len(table_of_contents)
    /\ BmFieldStore(
           field_step(bm_buf.b, DataOffset,
                      with_toc_depth(all_data[cur_toc_entry_index(CurEntry)], CurEntry),
                      CurEntry),
           cur_toc_entry_index(CurEntry))
    /\ UNCHANGED <<bm_buf, bm_idx, toc_offset, toc_count, table_of_contents, arVars, alVars, sessVars>>

\* return all_data
BmReturn ==
    /\ bm_pc = "fields"
    /\ toc_e = Len(table_of_contents)
    /\ bm_pc' = "done"
    /\ UNCHANGED <<bm_buf, bm_idx, toc_offset, toc_count, table_of_contents, all_data,
                   toc_e, bm_exc, bm_log, arVars, alVars, sessVars>>

NextBookmark ==
    \/ BmEnter
    \/ BmParseToc
    \/ BmTocDone
    \/ BmField
    \/ BmReturn

SpecBookmark == InitBookmark /\ [][NextBookmark]_vars


-----------------------------------------------------------------------------
(* Claims about parse_bookmark.                                            *)

\* The blob passed the checks of parse_bookmark: it has a whole header and
\* its magic is book or alis.
MagicOk ==
    /\ bm_buf # NoneV
    /\ Len(bm_buf.b) >= BM_HEADER_size
    /\ SubSeq(bm_buf.b, 1, 4) \in {BookMagic, AlisMagic}

\* C2: the walk of the next_toc chain visits a bounded number of TOC blocks:
\* the blocks of a chain that ends lie at different offsets of the blob, so
\* the number of blocks visited never exceeds the length of the blob.
C2_TocWalkBounded == MagicOk => toc_count <= Len(bm_buf.b)

\* Whether the array record at offset from holds, directly or through other
\* arrays, a pointer to the record at offset target.
RECURSIVE ArrayReaches(_, _, _, _, _)
ArrayReaches(buf, data_offset, from, target, fuel) ==
    /\ fuel > 0
    /\ CanUnpackFrom(buf, from, RECORD_HEADER_size)
    /\ U32LE(buf, from + 4) \in {\H601, \H902}
    /\ from + RECORD_HEADER_size + U32LE(buf, from) <= Len(buf)
    /\ \E i \in 0..((U32LE(buf, from) \div 4) - 1) :
          \/ U32LE(buf, from + RECORD_HEADER_size + 4 * i) + data_offset = target
          \/ ArrayReaches(buf, data_offset,
                          U32LE(buf, from + RECORD_HEADER_size + 4 * i) + data_offset,
                          target, fuel - 1)

\* The TOC entry names a surfaced field and its record has a header whose
\* data type the field allows: process_field decodes the record.
Decodes(e) ==
    /\ CanUnpackFrom(bm_buf.b, e.record_offset, RECORD_HEADER_size)
    /\ e.record_type \in DOMAIN FIELDS
    /\ FIELDS[e.record_type].surfaced
    /\ GeneralType(U32LE(bm_buf.b, e.record_offset + 4))
          \in FIELDS[e.record_type].types \cup {NULL_TYPE}

\* The record of the TOC entry is an array that refers back to itself.
CyclicArray(e) ==
    /\ Decodes(e)
    /\ ArrayReaches(bm_buf.b, DataOffset, e.record_offset, e.record_offset,
                    Len(RecordPool))

\* C4: decoding an array whose offsets refer back to the array itself does
\* not raise to the caller of parse_bookmark.
C4_ArrayCycleDoesNotRaise ==
    (bm_pc = "raised" /\ toc_e >= 1) => ~CyclicArray(table_of_contents[toc_e])

\* The declared length of the record of the TOC entry runs past the end of
\* the blob.
Overruns(e) ==
    /\ CanUnpackFrom(bm_buf.b, e.record_offset, RECORD_HEADER_size)
    /\ e.record_offset + RECORD_HEADER_size + U32LE(bm_buf.b, e.record_offset)
          > Len(bm_buf.b)

\* The field dict decode_value gives for the record of a TOC entry.
EntryFieldDict(e) ==
    decode_value(FIELDS[e.record_type].name, bm_buf.b, DataOffset, e.record_type,
                 U32LE(bm_buf.b, e.record_offset),
                 U32LE(bm_buf.b, e.record_offset + 4),
                 Slice(bm_buf.b, e.record_offset + RECORD_HEADER_size,
                       e.record_offset + RECORD_HEADER_size
                       + U32LE(bm_buf.b, e.record_offset)))

\* The record holds a value of the field dict fd.
HoldsValueOf(record, fd) ==
    /\ fd.exc = "none"
    /\ \E j \in 1..Len(fd.val) :
          Has(record, fd.val[j].k) /\ Get(record, fd.val[j].k) = fd.val[j].v

\* C5: a bookmark record whose declared length runs past the end of the blob
\* never yields a field value decoded from the shorter slice.
C5_NoValueFromTruncatedSlice ==
    \A i \in 1..toc_e :
        (Overruns(table_of_contents[i]) /\ Decodes(table_of_contents[i]))
            => ~HoldsValueOf(all_data[table_of_contents[i].index + 1],
                             EntryFieldDict(table_of_contents[i]))

\* The numbers of entries of the TOC blocks on the next_toc chain from off
\* to next_toc == 0, read from the blob.
RECURSIVE TocChain(_, _, _, _)
TocChain(buf, data_offset, off, fuel) ==
    IF off = 0 \/ fuel = 0 THEN <<>>
    ELSE <<U32LE(buf, data_offset + off + 16)>>
         \o TocChain(buf, data_offset, U32LE(buf, data_offset + off + 12), fuel - 1)

ChainOfBlob == TocChain(bm_buf.b, DataOffset, U32LE(bm_buf.b, DataOffset), Len(bm_buf.b))

\* The position on the chain of the TOC block that lists the p-th entry.
RECURSIVE OwnerOf(_, _)
OwnerOf(p, counts) ==
    IF p <= Head(counts) THEN 1 ELSE 1 + OwnerOf(p - Head(counts), Tail(counts))

C8_OneRecordPerToc ==
    (MagicOk /\ bm_pc \in {"fields", "done"}) =>
        /\ Len(all_data) = Len(ChainOfBlob)
        /\ \A i \in 1..Len(all_data) :
              /\ Has(all_data[i], "bookmark_index")
              /\ Get(all_data[i], "bookmark_index") = IntV(bm_idx)

C8_OnlyOwnRecord ==
    (bm_pc = "fields" /\ toc_e' = toc_e + 1) =>
        \A i \in 1..Len(all_data) :
            i # OwnerOf(toc_e + 1, ChainOfBlob) => all_data'[i] = all_data[i]

\* C8: the list parse_bookmark builds has one record per TOC block on the
\* next_toc chain (a TOC without entries included), each record carries the
\* caller's bookmark_index, and processing a TOC entry changes only the
\* record at the position of the TOC block that lists it.
C8_RecordsFollowTocs == []C8_OneRecordPerToc /\ [][C8_OnlyOwnRecord]_vars

\* C8 witness: a blob of two TOCs, the first without entries, was decoded
\* for idx 7: two records, the second with a field.
C8_Witness ==
    /\ bm_pc = "done"
    /\ toc_count = 2
    /\ all_data[1] = <<Item("bookmark_index", IntV(7))>>
    /\ Has(all_data[2], "target_filename")
    /\ Get(all_data[2], "bookmark_index") = IntV(7)

ErrorCount(log) == Cardinality({i \in 1..Len(log) : log[i] = "error"})

\* The keys of the field dict fd that the record already holds.
DupKeys(record, fd) ==
    IF fd.exc # "none" THEN {}
    ELSE {fd.val[j].k : j \in {n \in 1..Len(fd.val) : Has(record, fd.val[n].k)}}

\* The keys the entry the loop is at would write a second time.
CurDupKeys ==
    IF bm_pc = "fields" /\ toc_e < Len(table_of_contents) /\ Decodes(CurEntry)
    THEN DupKeys(all_data[CurEntry.index + 1], EntryFieldDict(CurEntry))
    ELSE {}

C9_Step ==
    /\ \A i \in 1..Len(all_data) : \A j \in 1..Len(all_data[i]) :
          /\ Len(all_data') = Len(all_data)
          /\ Has(all_data'[i], all_data[i][j].k)
          /\ Get(all_data'[i], all_data[i][j].k) = all_data[i][j].v
    /\ ErrorCount(bm_log') >= ErrorCount(bm_log) + Cardinality(CurDupKeys)

\* C9: no step overwrites a field of a record: a key that is present keeps
\* its value, and every key a TOC entry would write a second time is reported
\* as an error.
C9_FirstValueWins == [][C9_Step]_vars

\* C9 witness: 0xf080 then 0xf081 were processed for the same TOC; the
\* record holds the sandbox fields of 0xf080 and an error was logged.
C9_Witness ==
    /\ bm_pc = "done"
    /\ \E i, j \in 1..toc_e :
          /\ i < j
          /\ table_of_contents[i].index = table_of_contents[j].index
          /\ table_of_contents[i].record_type = \Hf080
          /\ table_of_contents[j].record_type = \Hf081
          /\ Get(all_data[table_of_contents[i].index + 1], "sandbox_uuid") = TextV(<<117>>)
          /\ Get(all_data[table_of_contents[i].index + 1], "sandbox_path") = TextV(<<112>>)
    /\ ErrorCount(bm_log) = 2

\* process_field is called for the entry the loop is at: the header of its
\* record can be unpacked.
CurReadable ==
    /\ bm_pc = "fields"
    /\ toc_e < Len(table_of_contents)
    /\ CanUnpackFrom(bm_buf.b, CurEntry.record_offset, RECORD_HEADER_size)

\* record_data_type & EXPECTED_TYPE_MASK of the record of that entry
CurClass == GeneralType(U32LE(bm_buf.b, CurEntry.record_offset + 4))

\* The entry has a surfaced field ID and a value of a class that is neither
\* allowed for it nor NULL.
CurWrongClass ==
    /\ CurReadable
    /\ CurEntry.record_type \in DOMAIN FIELDS
    /\ FIELDS[CurEntry.record_type].surfaced
    /\ CurClass \notin FIELDS[CurEntry.record_type].types
    /\ CurClass # NULL_TYPE

\* The entry has a field ID that FIELDS does not hold.
CurUnknownId == CurReadable /\ CurEntry.record_type \notin DOMAIN FIELDS

\* The fields of a record, toc_depth apart.
Fields(rec) == SelectSeq(rec, LAMBDA it : it.k # "toc_depth")

\* The step reports level, adds no field to a record (toc_depth, which
\* parse_bookmark sets before it calls process_field, apart) and goes on
\* with the next entry.
SkippedWith(level) ==
    /\ bm_log' = Append(bm_log, level)
    /\ Len(all_data') = Len(all_data)
    /\ \A i \in 1..Len(all_data) :
          Fields(all_data'[i]) = Fields(all_data[i])
    /\ bm_exc' = "none"
    /\ bm_pc' = "fields"
    /\ toc_e' = toc_e + 1

\* C21: a TOC entry of a surfaced field ID whose value class is neither
\* allowed for the field nor NULL is reported as an error and adds no
\* field, the fields of the record stay as they are and the entries after
\* it are still decoded; an entry of an unknown field ID is reported as a
\* warning and skipped the same way.
C21_WrongClassSkipped ==
    [][/\ CurWrongClass => SkippedWith("error")
       /\ CurUnknownId => SkippedWith("warning")]_vars

\* C21 witness: a TOC gave target_inode (0x1030) a string and then
\* target_filename (0x1020) a string: the record has the file name and no
\* inode, and one error was logged.
C21_Witness ==
    /\ bm_pc = "done"
    /\ Len(table_of_contents) = 2
    /\ table_of_contents[1].index = table_of_contents[2].index
    /\ table_of_contents[1].record_type = \H1030
    /\ table_of_contents[2].record_type = \H1020
    /\ ~Has(all_data[table_of_contents[1].index + 1], "target_inode")
    /\ Get(all_data[table_of_contents[1].index + 1], "target_filename") = TextV(<<97>>)
    /\ bm_log = <<"error">>

\* The entry has a surfaced field ID and a value of class NULL (0xA01).
CurNull ==
    /\ CurReadable
    /\ CurEntry.record_type \in DOMAIN FIELDS
    /\ FIELDS[CurEntry.record_type].surfaced
    /\ CurClass = NULL_TYPE

\* The step raises nothing, goes on with the next entry and leaves the
\* field of the entry in its record, null when the step added it.
NullStored ==
    /\ bm_exc' = "none"
    /\ bm_pc' = "fields"
    /\ toc_e' = toc_e + 1
    /\ CurEntry.record_type \notin {\Hf080, \Hf081} =>
          LET index == cur_toc_entry_index(CurEntry)
              name == FIELDS[CurEntry.record_type].name
          IN  /\ Has(all_data'[index], name)
              /\ ~Has(all_data[index], name) => Get(all_data'[index], name) = NoneV

\* C22: a value of class NULL is taken for every surfaced field ID and
\* gives a null field value: the step raises nothing and the record goes
\* on, also for the fields whose value is post-processed (path, inode_path,
\* resource_props, volume_info_depths, volume_props, the sandbox fields).
C22_NullAccepted == [][CurNull => NullStored]_vars

\* A path that begins with '/' and has no empty component between
\* separators.
PathOk(p) ==
    /\ p.t = "text"
    /\ Len(p.c) >= 1
    /\ p.c[1] = 47
    /\ \A j \in 1..(Len(p.c) - 1) : ~(p.c[j] = 47 /\ p.c[j + 1] = 47)
    /\ Len(p.c) > 1 => p.c[Len(p.c)] # 47

\* C10: the path of every record begins with '/' and none of its components
\* is empty.
C10_PathComponentsNonEmpty ==
    \A i \in 1..Len(all_data) :
        Has(all_data[i], "path") => PathOk(Get(all_data[i], "path"))

\* C10 witness: the path array ['a', '', 'b'] was decoded to '/a/b'.
C10_Witness ==
    /\ bm_pc = "done"
    /\ \E i \in 1..Len(all_data) :
          /\ Has(all_data[i], "path")
          /\ Get(all_data[i], "path") = TextV(<<47, 97, 47, 98>>)

-----------------------------------------------------------------------------
(* AliasParser (alias.py)                                                  *)

AL_HEADER_size == 8
ALIASV3_size == 50
ALIASV2_size == 142
\* The cap on the number of named fields decoded (while ... loop_ct < 50).
LoopCap == 50

\* A variant of supported_versions without version 2 (the mutant of C6).
supported_versions_v3 == {3}

\* parse: the keys of supported_versions
supported_versions == {2, 3}
version_struct_size(version) == IF version = 2 THEN ALIASV2_size ELSE ALIASV3_size

\* The n octets at offset off, all inside b.
Octets(b, off, n) == SubSeq(b, off + 1, off + n)

\* A big-endian 'I': an int, kept by its octets beyond 31 bits.
U32BE(b, off) == IntOf(Reverse(Octets(b, off, 4)), FALSE)

\* 0xFFFFFFFF as a value of U32BE.
NoCnid == NumV(<<255, 255, 255, 255>>)

\* record[k] = v, record.pop(k) and record.get(k) on a dict in insertion
\* order.
SetItem(rec, k, v) ==
    IF Has(rec, k)
    THEN [i \in 1..Len(rec) |-> IF rec[i].k = k THEN Item(k, v) ELSE rec[i]]
    ELSE Append(rec, Item(k, v))
Pop(rec, k) == SelectSeq(rec, LAMBDA it : it.k # k)
GetOrNone(rec, k) == IF Has(rec, k) THEN Get(rec, k) ELSE NoneV

\* ALIASV3.parse_as_dict on the 50 octets of the fixed body
ALIASV3(b) ==
    << Item("is_directory", IntV(U16BE(b, 0))),
       Item("volume_creation_date", BytesV(Octets(b, 2, 8))),
       Item("signature_fsid", BytesV(Octets(b, 10, 4))),
       Item("parent_inode", U32BE(b, 16)),
       Item("target_inode", U32BE(b, 20)),
       Item("creation_date", BytesV(Octets(b, 24, 8))),
       Item("volume_flags", U32BE(b, 32)) >>

\* ALIASV2.parse_as_dict on the 142 octets of the fixed body
ALIASV2(b) ==
    << Item("is_directory", IntV(U16BE(b, 0))),
       Item("volume_name", BytesV(Octets(b, 3, 27))),
       Item("volume_creation_date", U32BE(b, 30)),
       Item("signature", BytesV(Octets(b, 34, 2))),
       Item("disk_type", IntV(U16BE(b, 36))),
       Item("parent_inode", U32BE(b, 38)),
       Item("target_filename", BytesV(Octets(b, 43, 63))),
       Item("target_inode", U32BE(b, 106)),
       Item("creation_date", U32BE(b, 110)),
       Item("application", BytesV(Octets(b, 114, 4))),
       Item("target_type", BytesV(Octets(b, 118, 4))),
       Item("alias_to_root_depth", IntV(U16BE(b, 122))),
       Item("root_to_target_depth", IntV(U16BE(b, 124))),
       Item("volume_flags", U32BE(b, 126)),
       Item("filesystem_id", BytesV(Octets(b, 130, 2))) >>

\* NamedStruct.parse_as_dict: self.unpack(buf[offset:self.size + offset])
\* raises struct.error unless the slice has the size of the struct.
parse_as_dict_of(version, b) ==
    IF Len(b) # version_struct_size(version) THEN RaiseB("struct.error", <<>>)
    ELSE OkB(IF version = 2 THEN ALIASV2(b) ELSE ALIASV3(b), <<>>)

parse_as_dict(version, buf, offset) ==
    parse_as_dict_of(version, Slice(buf, offset, version_struct_size(version) + offset))

\* binascii.hexlify(raw).decode('ascii')
Hexlify(raw) ==
    Concat([i \in 1..Len(raw) |-> <<HexDigit(raw[i] \div 16), HexDigit(raw[i] % 16)>>])

NotNul(c) == c # 0

\* decode_utf8 on the slice raw: the text without its NULs, or the hex digits
\* of octets that are not UTF-8.
decode_utf8_raw(raw) ==
    IF Utf8Valid(raw) THEN TextV(SelectSeq(raw, NotNul)) ELSE TextV(Hexlify(raw))

\* decode_utf8; a length of 0 stands for a falsy length (0 or None).
decode_utf8(buf, offset, length) ==
    decode_utf8_raw(IF length # 0 THEN Slice(buf, offset, offset + length)
                    ELSE Slice(buf, offset, Len(buf)))

\* decode_cnid_path, on the slice buf[offset:offset + length]
decode_cnid_path_of(raw, length) ==
    IF length % 4 # 0 THEN OkB(NoneV, <<"warning">>)
    ELSE IF length = 0 THEN OkB(NoneV, <<>>)
    ELSE IF Len(raw) # length THEN RaiseB("struct.error", <<>>)
    ELSE OkB(TextV(JoinCodes(StrEach([i \in 1..(length \div 4) |-> U32BE(raw, 4 * (i - 1))]),
                             <<47>>)), <<>>)

decode_cnid_path(buf, offset, length) ==
    decode_cnid_path_of(Slice(buf, offset, offset + length), length)

\* bytes.decode('utf-16-be') of raw: an odd number of octets or a surrogate
\* on its own is an error (the model's inputs hold no surrogate pair).
decode_utf16_be(raw) ==
    IF Len(raw) % 2 # 0 \/ \E i \in 1..(Len(raw) \div 2) : raw[2 * i - 1] \in 216..223
    THEN RaiseB("UnicodeDecodeError", <<>>)
    ELSE OkB(TextV([i \in 1..(Len(raw) \div 2) |-> 256 * raw[2 * i - 1] + raw[2 * i]]), <<>>)

\* decode_hfs_unicode_str
decode_hfs_unicode_str(buf, offset, length) ==
    IF ~CanUnpackFrom(buf, offset, 2) THEN RaiseB("struct.error", <<>>)
    ELSE decode_utf16_be(Slice(buf, offset + 2, offset + 2 + 2 * U16BE(buf, offset)))

\* combine_hfs_datetime on the 8 octets (high, low, fraction): None for zero
\* seconds, else the timestamp.  (A value parse_timestamp cannot turn into a
\* datetime also gives None; the dates of the model's inputs are in range.)
combine_hfs_datetime(octets) ==
    IF AllZero(octets) THEN NoneV ELSE [t |-> "datetime", hfs |-> octets]

\* decode_hfs_epoch_date, on timestamp = buf[offset:offset + length]: each
\* struct.unpack needs its whole slice of timestamp.
decode_hfs_epoch_date_of(timestamp) ==
    IF Len(timestamp) < 8 THEN RaiseB("struct.error", <<>>)
    ELSE OkB(combine_hfs_datetime(SubSeq(timestamp, 1, 8)), <<>>)

decode_hfs_epoch_date(buf, offset, length) ==
    decode_hfs_epoch_date_of(Slice(buf, offset, offset + length))

\* named_fields(): field_id -> (field_name, decoder); a decoder of None is
\* "none".
Named(name, decoder) == [name |-> name, decoder |-> decoder]
named_fields ==
    (0 :> Named("folder_name", "decode_utf8"))
    @@ (1 :> Named("cnid_path", "decode_cnid_path"))
    @@ (2 :> Named("hfs_path", "decode_utf8"))
    @@ (3 :> Named("appleshare_zone", "none"))
    @@ (4 :> Named("appleshare_server_name", "none"))
    @@ (5 :> Named("appleshare_username", "none"))
    @@ (6 :> Named("driver_name", "decode_utf8"))
    @@ (9 :> Named("network_mount_info", "none"))
    @@ (10 :> Named("dialup_info", "none"))
    @@ (14 :> Named("target_filename", "decode_hfs_unicode_str"))
    @@ (15 :> Named("volume_name", "decode_hfs_unicode_str"))
    @@ (16 :> Named("volume_creation_date", "decode_hfs_epoch_date"))
    @@ (17 :> Named("creation_date", "decode_hfs_epoch_date"))
    @@ (18 :> Named("path", "decode_utf8"))
    @@ (19 :> Named("volume_mount_point", "decode_utf8"))
    @@ (20 :> Named("alias_data", "slice"))
    @@ (21 :> Named("user_home_prefix_length", "none"))

\* A variant of alias_data_slice that gives the blob itself (the mutant of
\* C20).
alias_data_whole(buf, offset, length) == BytesV(buf)

\* named_fields, 0x0014: lambda buf, offset, length: buf[offset:offset + length]
alias_data_slice(buf, offset, length) == BytesV(Slice(buf, offset, offset + length))

\* decoder(buf, cur_offset, length)
run_decoder(decoder, buf, offset, length) ==
    CASE decoder = "decode_utf8" -> OkB(decode_utf8(buf, offset, length), <<>>)
      [] decoder = "decode_cnid_path" -> decode_cnid_path(buf, offset, length)
      [] decoder = "decode_hfs_unicode_str" -> decode_hfs_unicode_str(buf, offset, length)
      [] decoder = "decode_hfs_epoch_date" -> decode_hfs_epoch_date(buf, offset, length)
      [] decoder = "slice" -> OkB(alias_data_slice(buf, offset, length), <<>>)

\* The outcome of decode_field: the exception, the offset returned, the
\* record and the log.
Decoded(exc, offset, rec, log) == [exc |-> exc, offset |-> offset, rec |-> rec, log |-> log]

\* try: record[field_name] = decoder(...) except Exception: logger.debug
decode_field_set(r, field_name, rec, offset) ==
    IF r.exc # "none" THEN Decoded("none", offset, rec, r.log \o <<"debug">>)
    ELSE Decoded("none", offset, SetItem(rec, field_name, r.val), r.log)

\* decode_field, after the header (field_id, length) is unpacked
decode_field_body(buf, offset, rec, field_id, length) ==
    IF field_id # 65535 /\ length > 0
    THEN IF field_id \in DOMAIN named_fields
         THEN IF named_fields[field_id].decoder # "none"
              THEN decode_field_set(
                       run_decoder(named_fields[field_id].decoder, buf, offset + 4, length),
                       named_fields[field_id].name, rec,
                       offset + 4 + length + (length % 2))
              ELSE Decoded("none", offset + 4 + length + (length % 2), rec, <<>>)
         ELSE Decoded("none", offset + 4 + length + (length % 2), rec, <<"warning">>)
    ELSE Decoded("none", offset + 4, rec, <<>>)

\* decode_field: struct.unpack_from('>HH', buf, cur_offset) is outside the
\* try.
decode_field(buf, offset, rec) ==
    IF ~CanUnpackFrom(buf, offset, 4) THEN Decoded("struct.error", offset, rec, <<>>)
    ELSE decode_field_body(buf, offset, rec, U16BE(buf, offset), U16BE(buf, offset + 2))

\* val.decode('ascii'), or the hex digits
decode_ascii(val) == IF Utf8Valid(val) THEN TextV(val) ELSE TextV(Hexlify(val))

decode_ascii_field(rec, f) ==
    IF Has(rec, f) /\ Get(rec, f).t = "bytes"
    THEN SetItem(rec, f, decode_ascii(Get(rec, f).b))
    ELSE rec

\* decode_ascii_fields
decode_ascii_fields(rec) ==
    decode_ascii_field(decode_ascii_field(rec, "application"), "target_type")

\* decode_dates, one field: record[f] = decode_hfs_epoch_date(record.pop(f), 0, 8)
decode_date(rec, f) ==
    IF Has(rec, f) /\ Get(rec, f).t = "bytes"
    THEN Append(Pop(rec, f), Item(f, decode_hfs_epoch_date(Get(rec, f).b, 0, 8).val))
    ELSE rec

\* decode_dates: only a bytes value is converted.
decode_dates(rec) == decode_date(decode_date(rec, "creation_date"), "volume_creation_date")

\* A variant of filter_cnid that takes 0xFFFF for the sentinel (the mutant
\* of C7).
filter_cnid_short(rec, cnid) ==
    IF Has(rec, cnid)
    THEN SetItem(rec, cnid, IF Get(rec, cnid) = IntV(65535) THEN NoneV ELSE Get(rec, cnid))
    ELSE rec

\* filter_cnids, one field
filter_cnid(rec, cnid) ==
    IF Has(rec, cnid)
    THEN SetItem(rec, cnid, IF Get(rec, cnid) = NoCnid THEN NoneV ELSE Get(rec, cnid))
    ELSE rec

\* filter_cnids
filter_cnids(rec) == filter_cnid(filter_cnid(rec, "parent_inode"), "target_inode")

filter_level(rec, level) ==
    IF GetOrNone(rec, level) = IntV(65535) THEN SetItem(rec, level, NoneV) ELSE rec

\* filter_levels
filter_levels(rec) ==
    filter_level(filter_level(rec, "alias_to_root_depth"), "root_to_target_depth")

\* path = record.get('path') or ''
PathOrEmpty(rec) ==
    IF Truthy(GetOrNone(rec, "path")) THEN GetOrNone(rec, "path").c ELSE <<>>

\* join_path_mount
join_path_mount(rec) ==
    IF Truthy(GetOrNone(rec, "volume_mount_point"))
    THEN SetItem(rec, "path",
             TextV(Get(rec, "volume_mount_point").c
                   \o (IF Get(rec, "volume_mount_point").c[Len(Get(rec, "volume_mount_point").c)] # 47
                          /\ PathOrEmpty(rec) # <<>>
                       THEN <<47>> ELSE <<>>)
                   \o PathOrEmpty(rec)))
    ELSE rec

\* SIGNATURE_FSID.get(signature_fsid, 'Unknown')
SIGNATURE_FSID(b) ==
    CASE b = <<66, 68, 99, 117>> -> Str("UDF (CD/DVD)")
      [] b = <<66, 68, 73, 83>> -> Str("FAT32")
      [] b = <<66, 68, 120, 70>> -> Str("exFAT")
      [] b = <<72, 88, 0, 0>> -> Str("HFSX")
      [] b = <<72, 43, 0, 0>> -> Str("HFS+")
      [] b = <<75, 71, 0, 0>> -> Str("FTP")
      [] b = <<78, 84, 99, 117>> -> Str("NTFS")
      [] OTHER -> Str("Unknown")

\* DISK_TYPES.get(disk_type, 'Unknown')
DISK_TYPES(n) ==
    CASE n = 0 -> Str("Fixed")
      [] n = 1 -> Str("Network")
      [] n = 2 -> Str("400KB Floppy")
      [] n = 3 -> Str("800KB Floppy")
      [] n = 4 -> Str("1.44MB Floppy")
      [] n = 5 -> Str("Ejectable")
      [] OTHER -> Str("Unknown")

ALIAS_FLAGS ==
    <<[bit |-> 1, name |-> "IsEjectable"], [bit |-> 5, name |-> "IsBootVolume"],
      [bit |-> 7, name |-> "IsAutomounted"], [bit |-> 8, name |-> "HasPersistentFileIds"]>>

\* The little-endian octets of an unsigned 32-bit value.
OctetsOf(x) == IF x.t = "num" THEN x.raw ELSE LE32(x.n)

\* parse_version, lines 170 to 178 in order
set_is_directory(rec) ==
    SetItem(rec, "is_directory", BoolV(Get(rec, "is_directory").n # 0))

set_signature_fsid(rec) ==
    IF GetOrNone(rec, "signature_fsid") = NoneV
    THEN SetItem(Pop(Pop(rec, "signature"), "filesystem_id"), "signature_fsid",
                 BytesV(Get(rec, "signature").b \o Get(rec, "filesystem_id").b))
    ELSE rec

set_filesystem_description(rec) ==
    SetItem(rec, "filesystem_description", SIGNATURE_FSID(Get(rec, "signature_fsid").b))

set_disk_type_description(rec) ==
    IF Has(rec, "disk_type")
    THEN SetItem(rec, "disk_type_description", DISK_TYPES(Get(rec, "disk_type").n))
    ELSE rec

decode_signature_fsid(rec) ==
    SetItem(rec, "signature_fsid", decode_utf8(Get(rec, "signature_fsid").b, 0, 0))

set_volume_flags(rec) ==
    Append(Pop(rec, "volume_flags"),
           Item("volume_flags",
                interpret_flags(OctetsOf(Get(rec, "volume_flags")) \o <<0, 0, 0, 0>>,
                                ALIAS_FLAGS)))

\* A variant of set_bookmark_index that stores 0 whatever the caller passed
\* (the mutant of C19).
set_bookmark_index_zero(rec, idx) == SetItem(rec, "bookmark_index", IntV(0))

set_bookmark_index(rec, idx) == SetItem(rec, "bookmark_index", IntV(idx))

\* parse_version from the end of the while loop to record.pop('alias_data'):
\* the record as it is before alias_data is popped.
post_process(rec, idx) ==
    set_bookmark_index(
        set_volume_flags(
            decode_signature_fsid(
                set_disk_type_description(
                    set_filesystem_description(
                        set_signature_fsid(
                            set_is_directory(
                                join_path_mount(
                                    filter_levels(
                                        filter_cnids(
                                            decode_dates(
                                                decode_ascii_fields(rec))))))))))),
        idx)

\* The outcome of parse up to the while loop of parse_version: whether the
\* generator is finished, the record, the offset of the first named field
\* and the log.
Entered(done, rec, offset, log) ==
    [done |-> done, rec |-> rec, offset |-> offset, log |-> log]

\* parse_version: try: record = version_struct.parse_as_dict(buf, offset)
\* except struct.error: logger.debug(...); return
parse_version_enter(r, version, log) ==
    IF r.exc # "none" THEN Entered(TRUE, <<>>, 0, log \o <<"debug">>)
    ELSE Entered(FALSE, r.val, AL_HEADER_size + version_struct_size(version), log)

\* parse, after HEADER.unpack_from(buf)
parse_header(buf, app_info, record_length, version) ==
    IF version \notin supported_versions
    THEN Entered(TRUE, <<>>, 0,
                 (IF app_info # <<0, 0, 0, 0>> THEN <<"warning">> ELSE <<>>)
                 \o (IF record_length # Len(buf) THEN <<"warning">> ELSE <<>>)
                 \o <<"error">>)
    ELSE parse_version_enter(
             parse_as_dict(version, buf, AL_HEADER_size), version,
             (IF app_info # <<0, 0, 0, 0>> THEN <<"warning">> ELSE <<>>)
             \o (IF record_length # Len(buf) THEN <<"warning">> ELSE <<>>))

\* parse, up to the while loop of parse_version
parse_enter(buf) ==
    IF buf = NoneV THEN Entered(TRUE, <<>>, 0, <<>>)
    ELSE IF Len(buf.b) < AL_HEADER_size THEN Entered(TRUE, <<>>, 0, <<>>)
    ELSE parse_header(buf.b, Octets(buf.b, 0, 4), U16BE(buf.b, 4), U16BE(buf.b, 6))

-----------------------------------------------------------------------------
(* Input blobs of AliasParser.parse.                                       *)
(*                                                                         *)
(* A blob is HEADER (app_info, record_length, version), the fixed body of  *)
(* the version, a list of named fields (field_id, length, data, one pad    *)
(* octet after data of odd length) and up to 3 more octets.                *)

\* Number of named fields of an input blob.
MaxTlvs == 2

Zeros(n) == [i \in 1..n |-> 0]

\* The values of the fixed body the inputs vary.
Body(parent, target, up, down) ==
    [parent |-> parent, target |-> target, up |-> up, down |-> down]
InodeChoices == {<<255, 255, 255, 255>>, <<0, 0, 0, 1>>, <<0, 0, 255, 255>>}
DepthChoices == {<<255, 255>>, <<0, 2>>}
Bodies ==
    {Body(p, t, u, d) : p \in InodeChoices, t \in InodeChoices,
                        u \in DepthChoices, d \in DepthChoices}
DefaultBody == Body(<<0, 0, 0, 2>>, <<0, 0, 0, 3>>, <<0, 1>>, <<0, 1>>)

\* The octets ALIASV3 unpacks
V3Bytes(body) ==
    BE16(1) \o <<0, 0, 214, 139, 1, 2, 0, 0>> \o <<72, 43, 0, 0>> \o Zeros(2)
    \o body.parent \o body.target \o Zeros(8) \o <<0, 0, 1, 32>> \o Zeros(14)

\* The octets ALIASV2 unpacks
V2Bytes(body) ==
    BE16(0) \o <<2>> \o <<72, 68>> \o Zeros(25) \o <<214, 139, 1, 2>> \o <<72, 43>>
    \o BE16(5) \o body.parent \o <<1>> \o <<102>> \o Zeros(62) \o body.target
    \o Zeros(4) \o <<255, 0, 0, 0>> \o <<84, 69, 88, 84>> \o body.up \o body.down
    \o <<0, 0, 0, 2>> \o Zeros(2) \o Zeros(10)

\* A named field declaring length octets and holding data
Tlv(id, length, data) == [id |-> id, length |-> length, data |-> data]
TlvBytes(tlv) ==
    BE16(tlv.id) \o BE16(tlv.length) \o tlv.data
    \o (IF Len(tlv.data) % 2 = 1 THEN <<0>> ELSE <<>>)

AliasBytes(version, body, tlvs, trail) ==
    (IF version = 2 THEN V2Bytes(body) ELSE V3Bytes(body))
    \o Concat([i \in 1..Len(tlvs) |-> TlvBytes(tlvs[i])])
    \o [i \in 1..trail |-> 0]

AliasBlob(version, body, tlvs, trail) ==
    BytesV(Zeros(4) \o BE16(AL_HEADER_size + Len(AliasBytes(version, body, tlvs, trail)))
           \o BE16(version) \o AliasBytes(version, body, tlvs, trail))

\* An alias to embed as alias_data: version 3, no named field.
EmbeddedAlias ==
    AliasBlob(3, Body(<<0, 0, 0, 9>>, <<255, 255, 255, 255>>, <<0, 0>>, <<0, 0>>), <<>>, 0).b

TlvChoices ==
    { Tlv(0, 2, <<97, 98>>),                      \* folder_name 'ab'
      Tlv(18, 1, <<120>>),                        \* path 'x'
      Tlv(19, 1, <<47>>),                         \* volume_mount_point '/'
      Tlv(1, 4, <<0, 0, 0, 5>>),                  \* cnid_path '5'
      Tlv(1, 2, <<0, 5>>),                        \* cnid_path of a bad length
      Tlv(14, 4, <<0, 1, 0, 97>>),                \* target_filename 'a'
      Tlv(16, 8, <<0, 0, 214, 139, 1, 3, 0, 0>>), \* volume_creation_date
      Tlv(16, 2, <<0, 0>>),                       \* a date cut short
      Tlv(65535, 0, <<>>),                        \* the end marker
      Tlv(2, 0, <<>>),                            \* hfs_path of length 0
      Tlv(7, 2, <<1, 2>>),                        \* an unknown field
      Tlv(3, 2, <<1, 2>>),                        \* a field without decoder
      Tlv(20, Len(EmbeddedAlias), EmbeddedAlias), \* alias_data
      Tlv(18, 6, <<112, 113>>),                   \* path declaring 6 octets, holding 2
      Tlv(18, 2, <<255, 254>>) }                  \* path that is not UTF-8


\* Blobs that are missing, short, of an unsupported version, or cut inside
\* the fixed body.
OddAliases ==
    { NoneV, BytesV(<<>>), BytesV(Zeros(7)),
      BytesV(Zeros(4) \o BE16(8) \o BE16(3)),
      BytesV(SubSeq(AliasBlob(3, DefaultBody, <<>>, 0).b, 1, 57)),
      BytesV(SubSeq(AliasBlob(2, DefaultBody, <<>>, 0).b, 1, 100)),
      BytesV(Zeros(4) \o BE16(58) \o BE16(4) \o V3Bytes(DefaultBody)),
      BytesV(<<1, 0, 0, 0>> \o BE16(0) \o BE16(3) \o V3Bytes(DefaultBody)) }

\* Blobs of chosen named fields: an entry of field_id 0xFFFF that declares
\* data; every pair of a mount point that ends or does not end in '/' and a
\* path that starts or does not start with '/'.
SampleAliases ==
    { AliasBlob(3, DefaultBody, <<Tlv(65535, 4, <<0, 18, 0, 0>>)>>, 0),
      AliasBlob(3, DefaultBody, <<Tlv(65535, 2, <<0, 18>>), Tlv(18, 1, <<120>>)>>, 0) }
    \cup { AliasBlob(3, DefaultBody, <<mount, path>>, 0) :
              mount \in {Tlv(19, 1, <<47>>), Tlv(19, 2, <<47, 118>>)},
              path \in {Tlv(18, 1, <<120>>), Tlv(18, 2, <<47, 120>>)} }

\* The length of a version 3 alias that embeds k aliases, each in the one
\* before: the header, the fixed body and, for k > 0, an alias_data entry.
NestedLen(k) == (AL_HEADER_size + ALIASV3_size) * (k + 1) + 4 * k

\* The octets of such an alias before the alias it embeds.
NestedHead(k) ==
    Zeros(4) \o BE16(NestedLen(k)) \o BE16(3) \o V3Bytes(DefaultBody)
    \o BE16(20) \o BE16(NestedLen(k - 1))

\* A version 3 alias that embeds d aliases, each in the one before.
NestedAlias(d) ==
    BytesV(Concat([i \in 1..d |-> NestedHead(d + 1 - i)])
           \o AliasBlob(3, DefaultBody, <<>>, 0).b)

\* n entries of length 0 followed by a path entry.
LongList(n) == [i \in 1..(n + 1) |-> IF i <= n THEN Tlv(2, 0, <<>>) ELSE Tlv(18, 1, <<120>>)]

\* The input blobs: every body with one named field; the default body with
\* every list of up to MaxTlvs named fields and up to 3 more octets; lists
\* of about LoopCap named fields; the odd blobs.
IsAliasBlob(buf) ==
    \/ \E v \in {2, 3}, body \in Bodies : buf = AliasBlob(v, body, <<Tlv(18, 1, <<120>>)>>, 0)
    \/ \E v \in {2, 3}, n \in 0..MaxTlvs, trail \in 0..3 :
          \E tlvs \in [1..n -> TlvChoices] : buf = AliasBlob(v, DefaultBody, tlvs, trail)
    \/ \E n \in {LoopCap - 1, LoopCap, LoopCap + 1} :
          buf = AliasBlob(3, DefaultBody, LongList(n), 0)
    \/ \E d \in {RecursionLimit, RecursionLimit + 1} : buf = NestedAlias(d)
    \/ buf \in SampleAliases
    \/ buf \in OddAliases
AliasIndexes == {0, 7}

-----------------------------------------------------------------------------
(* AliasParser.parse as a state machine: the generator is run to its end,  *)
(* one step per named field decoded and one step per record yielded.       *)

InitAlias ==
    /\ IsAliasBlob(al_buf)
    /\ al_idx \in AliasIndexes
    /\ al_pc = "call"
    /\ al_cur = al_buf
    /\ al_depth = 0
    /\ cur_offset = 0
    /\ loop_ct = 0
    /\ al_record = <<>>
    /\ al_out = <<>>
    /\ al_exc = "none"
    /\ al_log = <<>>
    /\ ArIdle
    /\ BmIdle
    /\ calls = <<>>

\* The effect of parse up to the while loop, with outcome e.
AlParseStore(e) ==
    /\ al_pc' = IF e.done THEN "done" ELSE "walk"
    /\ al_record' = e.rec
    /\ cur_offset' = e.offset
    /\ loop_ct' = 0
    /\ al_log' = al_log \o e.log

\* parse(fullpath, idx, buf) up to the while loop of parse_version
AlParse ==
    /\ al_pc = "call"
    /\ AlParseStore(parse_enter(al_cur))
    /\ UNCHANGED <<al_buf, al_idx, al_cur, al_depth, al_out, al_exc, arVars, bmVars, sessVars>>

\* The effect of one iteration of the while loop, with outcome e.
AlFieldStore(e) ==
    /\ al_exc' = e.exc
    /\ al_pc' = IF e.exc = "none" THEN "walk" ELSE "raised"
    /\ al_record' = e.rec
    /\ cur_offset' = e.offset
    /\ loop_ct' = loop_ct + 1
    /\ al_log' = al_log \o e.log

\* A variant of walk_continues without the cap (the mutant of C15).
walk_continues_uncapped(offset, buf_len, ct) == offset < buf_len

\* parse_version: while cur_offset < buf_len and loop_ct < 50
walk_continues(offset, buf_len, ct) == offset < buf_len /\ ct < LoopCap

\* parse_version: one iteration of the while loop
AlDecodeField ==
    /\ al_pc = "walk"
    /\ walk_continues(cur_offset, Len(al_cur.b), loop_ct)
    /\ AlFieldStore(decode_field(al_cur.b, cur_offset, al_record))
    /\ UNCHANGED <<al_buf, al_idx, al_cur, al_depth, al_out, arVars, bmVars, sessVars>>

\* The effect of yielding the post-processed record rec: the record without
\* alias_data is yielded; a truthy alias_data is parsed next, and a
\* RecursionError of that parse is caught and logged.
AlYieldStore(rec) ==
    /\ al_out' = Append(al_out, Pop(rec, "alias_data"))
    /\ IF Truthy(GetOrNone(rec, "alias_data"))
       THEN IF al_depth + 1 > RecursionLimit
            THEN /\ al_pc' = "done"
                 /\ al_log' = al_log \o <<"error">>
                 /\ UNCHANGED <<al_cur, al_depth>>
            ELSE /\ al_pc' = "call"
                 /\ al_cur' = GetOrNone(rec, "alias_data")
                 /\ al_depth' = al_depth + 1
                 /\ UNCHANGED al_log
       ELSE /\ al_pc' = "done"
            /\ UNCHANGED <<al_cur, al_depth, al_log>>

\* parse_version from the end of the while loop: the post-processing, yield
\* record, and the parse of an embedded alias
AlYield ==
    /\ al_pc = "walk"
    /\ ~walk_continues(cur_offset, Len(al_cur.b), loop_ct)
    /\ AlYieldStore(post_process(al_record, al_idx))
    /\ UNCHANGED <<al_buf, al_idx, cur_offset, loop_ct, al_record, al_exc, arVars, bmVars, sessVars>>

NextAlias ==
    \/ AlParse
    \/ AlDecodeField
    \/ AlYield

SpecAlias == InitAlias /\ [][NextAlias]_vars


-----------------------------------------------------------------------------
(* Claims about AliasParser.parse.                                         *)

\* C3: parse never raises to the caller: for every blob, also one where 1 to
\* 3 octets remain after the fixed body or after a named field, iterating the
\* result ends without an exception.
C3_ParseNeverRaises == al_pc # "raised"

WholeAlias(buf) ==
    /\ buf # NoneV
    /\ Len(buf.b) >= AL_HEADER_size
    /\ \/ U16BE(buf.b, 6) = 2 /\ Len(buf.b) >= AL_HEADER_size + ALIASV2_size
       \/ U16BE(buf.b, 6) = 3 /\ Len(buf.b) >= AL_HEADER_size + ALIASV3_size

CnidOf(raw) ==
    IF raw = <<255, 255, 255, 255>> THEN NoneV
    ELSE IF raw[1] < 128
    THEN IntV(16777216 * raw[1] + 65536 * raw[2] + 256 * raw[3] + raw[4])
    ELSE NumV(<<raw[4], raw[3], raw[2], raw[1]>>)

\* The value a record must hold for a depth whose octets in the blob are raw.
LevelOf(raw) == IF raw = <<255, 255>> THEN NoneV ELSE IntV(256 * raw[1] + raw[2])

\* The record r yielded from the blob b holds the sentinel-cleaned values of
\* the fixed body of b.
SentinelsCleaned(r, b) ==
    IF U16BE(b, 6) = 3
    THEN /\ Get(r, "parent_inode") = CnidOf(Octets(b, AL_HEADER_size + 16, 4))
         /\ Get(r, "target_inode") = CnidOf(Octets(b, AL_HEADER_size + 20, 4))
    ELSE /\ Get(r, "parent_inode") = CnidOf(Octets(b, AL_HEADER_size + 38, 4))
         /\ Get(r, "target_inode") = CnidOf(Octets(b, AL_HEADER_size + 106, 4))
         /\ Get(r, "alias_to_root_depth") = LevelOf(Octets(b, AL_HEADER_size + 122, 2))
         /\ Get(r, "root_to_target_depth") = LevelOf(Octets(b, AL_HEADER_size + 124, 2))

C7_Step ==
    Len(al_out') = Len(al_out) + 1 => SentinelsCleaned(al_out'[Len(al_out')], al_cur.b)

\* C7: in every record yielded, of version 2 or 3, outer or embedded,
\* parent_inode and target_inode are null iff their octets in the blob are
\* 0xFFFFFFFF and the two depths iff theirs are 0xFFFF; any other value is
\* yielded as it is in the blob.
C7_SentinelsBecomeNull == [][C7_Step]_vars

\* C7 witness: a version 2 record with a null parent_inode, target_inode
\* 0xFFFF, a null alias_to_root_depth and root_to_target_depth 2 was yielded.
C7_Witness ==
    /\ al_pc = "done"
    /\ Len(al_out) = 1
    /\ Has(al_out[1], "alias_to_root_depth")
    /\ Get(al_out[1], "parent_inode") = NoneV
    /\ Get(al_out[1], "target_inode") = IntV(65535)
    /\ Get(al_out[1], "alias_to_root_depth") = NoneV
    /\ Get(al_out[1], "root_to_target_depth") = IntV(2)

-----------------------------------------------------------------------------
(* A caller of the decoders: it calls parse_archive, parse_bookmark and    *)
(* AliasParser.parse one after the other, in any order, on inputs of its   *)
(* choice, and keeps what each call gave.  A call starts with the locals   *)
(* of the function fresh, as every Python call does; the decoders have no  *)
(* attribute that is assigned after the classes are defined.               *)

\* Number of calls of a session.
MaxCalls == 3




SessionArchives ==
    { Archive(<<DictV(("$class" :> Uid(1)) @@ ("NS.string" :> Str("hello"))),
                DictV("$classname" :> Str("NSString"))>>,
              DictV(("root" :> Uid(0)) @@ ("other" :> IntV(7)))),
      \* $objects[0] refers to itself
      Archive(<<Uid(0)>>, DictV("root" :> Uid(0))),
      Archive(<<>>, DictV("root" :> IntV(7))) }

WrongMagic == <<120, 120, 120, 120>>

SessionBookmarks ==
    { NoneV, BytesV(<<>>), BytesV(SubSeq(BookMagic, 1, 3)),
      BytesV(HeaderBytes(BookMagic, BM_HEADER_size - 1)
             \o LE32(0) \o LE32(0) \o LE32(0)),
      Blob(WrongMagic, <<[depth |-> 1, entries |-> <<Entry(\H1020, 1)>>]>>, "end"),
      Blob(BookMagic, <<[depth |-> 1, entries |-> <<Entry(\H1020, 1)>>]>>, "end"),
      \* a path array that holds itself
      Blob(BookMagic, <<[depth |-> 1, entries |-> <<Entry(\H1004, 5)>>]>>, "end") }

SessionAliases ==
    { NoneV, BytesV(<<>>), BytesV(Zeros(7)),
      BytesV(Zeros(4) \o BE16(58) \o BE16(4) \o V3Bytes(DefaultBody)),
      AliasBlob(3, DefaultBody, <<Tlv(20, Len(EmbeddedAlias), EmbeddedAlias)>>, 0),
      \* one octet after the named field
      AliasBlob(2, DefaultBody, <<Tlv(18, 1, <<120>>)>>, 1) }

\* No call is running.
NoCall == ar_pc = "idle" /\ bm_pc = "idle" /\ al_pc = "idle"

InitSession ==
    /\ ArIdle
    /\ BmIdle
    /\ AlIdle
    /\ calls = <<>>

\* One call that has ended: the decoder, its arguments, what it returned
\* (for the alias generator: what it yielded) and the exception it raised.
Call(decoder, input, idx, out, exc) ==
    [decoder |-> decoder, input |-> input, idx |-> idx, out |-> out, exc |-> exc]

\* NSKeyedArchiveParser(fullpath).parse_archive(plist_data)
SessCallArchive ==
    /\ NoCall
    /\ Len(calls) < MaxCalls
    /\ plist_data' \in SessionArchives
    /\ ar_pc' = "call"
    /\ UNCHANGED <<top_i, ret, ar_exc, ar_log, bmVars, alVars, sessVars>>

\* The call has returned or raised.
SessReturnArchive ==
    /\ ar_pc \in {"done", "raised"}
    /\ calls' = Append(calls, Call("archive", plist_data, 0, ret, ar_exc))
    /\ plist_data' = NoneV
    /\ ar_pc' = "idle"
    /\ top_i' = 0
    /\ ret' = <<>>
    /\ ar_exc' = "none"
    /\ ar_log' = <<>>
    /\ UNCHANGED <<bmVars, alVars>>

\* BookmarkParser.parse_bookmark(fullpath, idx, item_name, buf)
SessCallBookmark ==
    /\ NoCall
    /\ Len(calls) < MaxCalls
    /\ bm_buf' \in SessionBookmarks
    /\ bm_idx' = 7
    /\ bm_pc' = "call"
    /\ UNCHANGED <<toc_offset, toc_count, table_of_contents, all_data, toc_e, bm_exc,
                   bm_log, arVars, alVars, sessVars>>

SessReturnBookmark ==
    /\ bm_pc \in {"done", "raised"}
    /\ calls' = Append(calls, Call("bookmark", bm_buf, bm_idx, all_data, bm_exc))
    /\ bm_buf' = NoneV
    /\ bm_idx' = 0
    /\ bm_pc' = "idle"
    /\ toc_offset' = 0
    /\ toc_count' = 0
    /\ table_of_contents' = <<>>
    /\ all_data' = <<>>
    /\ toc_e' = 0
    /\ bm_exc' = "none"
    /\ bm_log' = <<>>
    /\ UNCHANGED <<arVars, alVars>>

\* list(AliasParser.parse(fullpath, idx, buf))
SessCallAlias ==
    /\ NoCall
    /\ Len(calls) < MaxCalls
    /\ al_buf' \in SessionAliases
    /\ al_cur' = al_buf'
    /\ al_idx' = 7
    /\ al_pc' = "call"
    /\ UNCHANGED <<al_depth, cur_offset, loop_ct, al_record, al_out, al_exc, al_log,
                   arVars, bmVars, sessVars>>

SessReturnAlias ==
    /\ al_pc \in {"done", "raised"}
    /\ calls' = Append(calls, Call("alias", al_buf, al_idx, al_out, al_exc))
    /\ al_buf' = NoneV
    /\ al_idx' = 0
    /\ al_pc' = "idle"
    /\ al_cur' = NoneV
    /\ al_depth' = 0
    /\ cur_offset' = 0
    /\ loop_ct' = 0
    /\ al_record' = <<>>
    /\ al_out' = <<>>
    /\ al_exc' = "none"
    /\ al_log' = <<>>
    /\ UNCHANGED <<arVars, bmVars>>

NextSession ==
    \/ SessCallArchive
    \/ SessReturnArchive
    \/ SessCallBookmark
    \/ SessReturnBookmark
    \/ SessCallAlias
    \/ SessReturnAlias
    \/ NextArchive
    \/ NextBookmark
    \/ NextAlias

SpecSession == InitSession /\ [][NextSession]_vars

-----------------------------------------------------------------------------
(* Claims about the walk over the named fields of an alias.                *)

RECURSIVE EndMarkerIn(_, _, _)
\* The walk that is at offset to has read an entry of field_id 0xFFFF at or
\* after offset from.
EndMarkerIn(buf, from, to) ==
    IF from >= to \/ ~CanUnpackFrom(buf, from, 4) THEN FALSE
    ELSE \/ U16BE(buf, from) = 65535
         \/ EndMarkerIn(buf, decode_field(buf, from, <<>>).offset, to)

\* The walk of the alias being parsed has read an entry of field_id 0xFFFF.
EndMarkerRead == EndMarkerIn(al_cur.b, parse_enter(al_cur).offset, cur_offset)

\* C14: the walk over the named fields stops at the first entry whose
\* field_id is 0xFFFF: no entry located after it sets or changes a field of
\* the record.
C14_StopsAtEndMarker ==
    [][al_pc = "walk" /\ EndMarkerRead => al_record' = al_record]_vars

\* The length the entry at the walk's place declares.
EntryLength == U16BE(al_cur.b, cur_offset + 2)

\* C16: decode_field advances so that the next entry is read at the right
\* place: an entry of length 0 sets no field and advances by 4; an entry of
\* length L > 0 advances by 4 and L, and by one more when L is odd.
C16_Advance ==
    [][al_pc = "walk" /\ al_pc' = "walk" /\ loop_ct' = loop_ct + 1
       => IF EntryLength = 0
          THEN cur_offset' = cur_offset + 4 /\ al_record' = al_record
          ELSE cur_offset' = cur_offset + 4 + EntryLength + (EntryLength % 2)]_vars

\* The walk never makes more than LoopCap iterations.
C15_AtMostCap == al_pc \in {"walk", "done", "raised"} => loop_ct <= LoopCap

\* After LoopCap iterations the next step yields the post-processed record,
\* whatever is left of the blob, and the walk is at the place it was.
C15_YieldAtCap ==
    al_pc = "walk" /\ loop_ct = LoopCap
    => /\ al_out' = Append(al_out, Pop(post_process(al_record, al_idx), "alias_data"))
       /\ al_record' = al_record
       /\ cur_offset' = cur_offset
       /\ al_exc' = "none"

\* C15: parse_version decodes at most 50 named fields of a blob: on a blob
\* with more the walk stops after the 50th, the entries beyond it do not
\* affect the record, and the record built from the first 50 is still
\* post-processed and emitted.
C15_WalkCapped == []C15_AtMostCap /\ [][C15_YieldAtCap]_vars

\* C15 witness: a blob of 50 empty entries and a path entry was decoded to
\* one record without a path, with the path entry left unread.
C15_Witness ==
    /\ al_pc = "done"
    /\ al_buf = AliasBlob(3, DefaultBody, LongList(LoopCap), 0)
    /\ loop_ct = LoopCap
    /\ cur_offset < Len(al_cur.b)
    /\ Len(al_out) = 1
    /\ ~Has(al_out[1], "path")
    /\ Has(al_out[1], "bookmark_index")

\* A bound of the number of steps the decoding has left: LoopCap + 2 steps
\* for the blob being parsed (enter, LoopCap named fields, yield) and as
\* many for each blob embedded in it, of which there are fewer than it has
\* octets.
StepsLeft ==
    (IF al_cur = NoneV THEN 0 ELSE Len(al_cur.b) * (LoopCap + 3))
    + (CASE al_pc = "call" -> LoopCap + 2
         [] al_pc = "walk" -> LoopCap + 1 - loop_ct
         [] OTHER -> 0)

\* The blob being parsed is shorter than the blob given by at least the
\* nesting depth, and the depth is within the recursion limit.
C20_DepthBounded ==
    /\ StepsLeft >= 0
    /\ al_depth <= RecursionLimit
    /\ al_cur # NoneV => Len(al_cur.b) + al_depth <= Len(al_buf.b)

\* Every step of the decoding lowers StepsLeft, so that the decoding ends;
\* an embedded alias that is parsed is shorter than the alias that holds
\* it; when the recursion limit does not allow the parse, an error is
\* logged, nothing is raised and the records emitted are kept.
C20_Step ==
    /\ StepsLeft' < StepsLeft
    /\ al_pc \in {"call", "walk"}
    /\ al_pc = "walk" /\ al_pc' = "call"
         => Len(al_cur'.b) < Len(al_cur.b) /\ al_depth' = al_depth + 1
    /\ (/\ al_pc = "walk"
        /\ Len(al_out') = Len(al_out) + 1
        /\ Truthy(GetOrNone(al_record, "alias_data"))
        /\ al_depth + 1 > RecursionLimit)
         => /\ al_pc' = "done"
            /\ al_exc' = "none"
            /\ al_log' = Append(al_log, "error")
            /\ SubSeq(al_out', 1, Len(al_out)) = al_out

\* C20: the decoding of embedded alias_data ends, with bounded depth, for
\* every blob: each embedded blob is a strict part of the blob that holds
\* it, and when the recursion bound is exceeded the decoder logs an error
\* and keeps the records already emitted.
C20_EmbeddedTerminates == []C20_DepthBounded /\ [][C20_Step]_vars

\* C20 witness: an alias nested one deeper than the recursion limit allows
\* was decoded to one record per level parsed, and the error was logged.
C20_Witness ==
    /\ al_pc = "done"
    /\ al_buf = NestedAlias(RecursionLimit + 1)
    /\ al_depth = RecursionLimit
    /\ Len(al_out) = RecursionLimit + 1
    /\ al_exc = "none"
    /\ \E i \in 1..Len(al_log) : al_log[i] = "error"

\* The field_id of the entry at the walk's place.
EntryId == U16BE(al_cur.b, cur_offset)

\* The walk is at an entry of a named field with a decoder, and the decoder
\* fails on it: it raises, or it is decode_cnid_path and the length is not
\* a multiple of 4.
DecoderFails ==
    /\ al_pc = "walk"
    /\ walk_continues(cur_offset, Len(al_cur.b), loop_ct)
    /\ CanUnpackFrom(al_cur.b, cur_offset, 4)
    /\ EntryId # 65535
    /\ EntryLength > 0
    /\ EntryId \in DOMAIN named_fields
    /\ named_fields[EntryId].decoder # "none"
    /\ \/ run_decoder(named_fields[EntryId].decoder, al_cur.b, cur_offset + 4,
                       EntryLength).exc # "none"
       \/ EntryId = 1 /\ EntryLength % 4 # 0

\* C26: when the decoder of a named field fails, the entry leaves the
\* record as it is (it adds no key, not one with a null value either, and
\* changes none), nothing is raised and the walk goes on behind the entry.
C26_FailedFieldAbsent ==
    [][DecoderFails =>
          /\ al_record' = al_record
          /\ al_exc' = "none"
          /\ al_pc' = "walk"
          /\ cur_offset' = cur_offset + 4 + EntryLength + (EntryLength % 2)]_vars

-----------------------------------------------------------------------------
(* Claims about the post-processing of an alias record.                    *)

\* The value of field f of record rec is a timestamp or null.
TimestampOrNull(rec, f) == Has(rec, f) /\ Get(rec, f).t \in {"datetime", "none"}

\* C17: in the record of a version 2 alias creation_date and
\* volume_creation_date are timestamps or null, never raw integers: the
\* scalar of the fixed body is converted when no named field supplies the
\* date, and replaced when one does.
C17_V2DatesAreTimestamps ==
    al_buf # NoneV /\ Len(al_out) >= 1 /\ U16BE(al_buf.b, 6) = 2
    => /\ TimestampOrNull(al_out[1], "creation_date")
       /\ TimestampOrNull(al_out[1], "volume_creation_date")

\* The characters m and p with exactly one '/' between them.
OneSlashJoin(m, p) ==
    (IF m[Len(m)] = 47 THEN SubSeq(m, 1, Len(m) - 1) ELSE m)
    \o <<47>>
    \o (IF p[1] = 47 THEN SubSeq(p, 2, Len(p)) ELSE p)

\* C18: join_path_mount stores in path the mount point and the path with
\* exactly one '/' between them, whether or not the mount point ends in '/'
\* and whether or not the path starts with '/'.
C18_OneSlashBetween ==
    [][/\ al_pc = "walk"
       /\ Len(al_out') = Len(al_out) + 1
       /\ Truthy(GetOrNone(al_record, "volume_mount_point"))
       /\ Truthy(GetOrNone(al_record, "path"))
       => Get(al_out'[Len(al_out')], "path")
            = TextV(OneSlashJoin(Get(al_record, "volume_mount_point").c,
                                 Get(al_record, "path").c))]_vars

\* Every record emitted carries the caller's index and no alias_data.
C19_IndexAndNoAliasData ==
    \A k \in 1..Len(al_out) :
        /\ Has(al_out[k], "bookmark_index")
        /\ Get(al_out[k], "bookmark_index") = IntV(al_idx)
        /\ ~Has(al_out[k], "alias_data")

\* A record is emitted when the walk of a blob ends: it is the record of
\* the blob at nesting level al_depth, emitted after the records of the
\* al_depth blobs that hold it and before any of the blob it embeds, which
\* is parsed next.
C19_YieldInOrder ==
    Len(al_out') = Len(al_out) + 1
    => /\ al_pc = "walk"
       /\ Len(al_out) = al_depth
       /\ Pop(al_out'[Len(al_out')], "bookmark_index")
            = Pop(Pop(post_process(al_record, al_idx), "alias_data"), "bookmark_index")
       /\ al_pc' = "call"
            => /\ Has(al_record, "alias_data")
               /\ al_cur' = Get(al_record, "alias_data")
               /\ al_depth' = al_depth + 1
       /\ Has(al_record, "alias_data") /\ Truthy(Get(al_record, "alias_data"))
            => al_pc' = "call" \/ al_depth + 1 > RecursionLimit

\* C19: when an alias carries an alias_data named field the outer record
\* is emitted first and the records of the embedded alias after it, in
\* nesting order; every record emitted carries the caller's index as
\* bookmark_index and none has an alias_data key.
C19_OuterThenEmbedded == []C19_IndexAndNoAliasData /\ [][C19_YieldInOrder]_vars

\* C19 witness: an alias called with index 7 that embeds another gave the
\* record of the outer alias (parent_inode 2), then the record of the
\* embedded one (parent_inode 9), both of index 7.
C19_Witness ==
    /\ al_pc = "done"
    /\ al_idx = 7
    /\ al_depth = 1
    /\ Len(al_out) = 2
    /\ Get(al_out[1], "parent_inode") = IntV(2)
    /\ Get(al_out[2], "parent_inode") = IntV(9)
    /\ Get(al_out[2], "bookmark_index") = IntV(7)

-----------------------------------------------------------------------------
(* Claims about the mapping parse_archive returns.                         *)

\* The keys of the returned mapping.
RetKeys == {ret[j].name : j \in 1..Len(ret)}

\* C12: the mapping returned by parse_archive has exactly the keys of $top;
\* each entry of $top whose value is a UID maps to the processed
\* $objects[uid], and each value that is not a UID is passed through
\* unchanged, also when $objects is empty or missing.
C12_KeysOfTop ==
    ar_pc = "done" =>
        /\ RetKeys = {TopItems(plist_data)[i].name : i \in 1..Len(TopItems(plist_data))}
        /\ \A i \in 1..Len(TopItems(plist_data)) :
              TopItems(plist_data)[i].val.t # "uid"
              => RetHolds(TopItems(plist_data)[i].name, TopItems(plist_data)[i].val)

-----------------------------------------------------------------------------
(* Claims about the decoders together.                                     *)

\* An alias blob that is missing, shorter than HEADER (an empty one too) or
\* of a version that is not supported.
NoAlias(buf) ==
    \/ buf = NoneV
    \/ Len(buf.b) < AL_HEADER_size
    \/ U16BE(buf.b, 6) \notin {2, 3}

\* A bookmark blob that is missing, shorter than HEADER (an empty one too)
\* or of a magic that is neither book nor alis.
NoBookmark(buf) ==
    \/ buf = NoneV
    \/ Len(buf.b) < BM_HEADER_size
    \/ SubSeq(buf.b, 1, 4) \notin {BookMagic, AlisMagic}

\* C11: for a blob that is empty, null or shorter than the format header,
\* AliasParser.parse yields no record and parse_bookmark returns an empty
\* list, and neither raises; the same holds for an alias of an unsupported
\* version and for a bookmark whose magic is neither book nor alis.
C11_NothingFromNoBlob ==
    \A i \in 1..Len(calls) :
        \/ calls[i].decoder = "alias" /\ NoAlias(calls[i].input)
        \/ calls[i].decoder = "bookmark" /\ NoBookmark(calls[i].input)
        => calls[i].out = <<>> /\ calls[i].exc = "none"

\* C11 witness: an alias of version 4 with a whole body, a bookmark of magic
\* xxxx with a TOC and an empty blob were each decoded to nothing.
C11_Witness ==
    /\ Len(calls) = 3
    /\ \E i \in 1..3 :
          /\ calls[i].decoder = "alias"
          /\ calls[i].input # NoneV
          /\ Len(calls[i].input.b) > AL_HEADER_size
          /\ NoAlias(calls[i].input)
          /\ calls[i].out = <<>>
    /\ \E i \in 1..3 :
          /\ calls[i].decoder = "bookmark"
          /\ calls[i].input # NoneV
          /\ Len(calls[i].input.b) > BM_HEADER_size
          /\ NoBookmark(calls[i].input)
          /\ calls[i].out = <<>>
    /\ \E i \in 1..3 : calls[i].input = BytesV(<<>>) /\ calls[i].out = <<>>

\* Two calls of the same decoder on the same arguments gave the same.
C13_SameResult ==
    \A i, j \in 1..Len(calls) :
        /\ calls[i].decoder = calls[j].decoder
        /\ calls[i].input = calls[j].input
        /\ calls[i].idx = calls[j].idx
        => calls[i].out = calls[j].out /\ calls[i].exc = calls[j].exc

\* A step of a running call leaves the plist or the blob it was given as
\* it is.
C13_InputKept ==
    /\ ar_pc # "idle" /\ ar_pc' # "idle" => plist_data' = plist_data
    /\ bm_pc # "idle" /\ bm_pc' # "idle" => bm_buf' = bm_buf
    /\ al_pc # "idle" /\ al_pc' # "idle" => al_buf' = al_buf

=============================================================================
